---- MODULE Spec2Model ----
(***************************************************************************)
(* Model of sync-http-mcp: the block-delta synchronisation path            *)
(* (src/src/delta_sync.py, src/src/client.py, src/src/remote_server.py)    *)
(* and the remote command executor (src/src/remote_server.py).             *)
(*                                                                         *)
(* Abstractions:                                                           *)
(*  - a byte string is a sequence over Byte; 0 is the zero byte b'\0';     *)
(*  - MD5 is an ideal (collision-free) digest: the digest of x is the pair *)
(*    <<"md5", x>>;                                                        *)
(*  - base64 is a length-preserving bijection onto a disjoint alphabet;    *)
(*  - mtime is advisory and left out of the fingerprints;                  *)
(*  - map_remote_path is the identity (the server is not in test mode).    *)
(***************************************************************************)
EXTENDS Integers, Sequences, FiniteSets, TLC

\* ------------------------------------------------------------------ bounds
\* Block size of the protocol, scaled down from 4096 so that files of a few
\* bytes have several blocks and a short last block.
BLOCK_SIZE == 2
\* Longest byte string considered.
MaxLen == 4
\* Number of lines a subprocess writes, to both of its streams together.
MaxLines == 2

Byte == {0, 1}
Paths == {"/w/f"}
\* Key under which the client's local view stores a fingerprint: the path of
\* the temporary file the content was written to (client.py:259-266).
TmpPath == "/tmp/mcp_delta_"

Contents == UNION {[1..n -> Byte] : n \in 0..MaxLen}

Min(a, b) == IF a < b THEN a ELSE b
Max(a, b) == IF a > b THEN a ELSE b

\* ------------------------------------------------------- digests, encoding
MD5(data) == <<"md5", data>>

\* base64.b64encode / base64.b64decode: byte x is written as the symbol x + 64.
b64encode(data) == [i \in 1..Len(data) |-> data[i] + 64]
b64decode(text) == [i \in 1..Len(text) |-> text[i] - 64]

\* str(index) and int(index_str) for block indices (delta_sync.py:409,
\* remote_server.py:1291).
IndexStr(i) == ToString(i)
MaxBlocks == (MaxLen + BLOCK_SIZE - 1) \div BLOCK_SIZE
StrIndex(s) == CHOOSE i \in 0..(MaxBlocks + 1) : ToString(i) = s

\* ------------------------------------------------------------ fingerprints
\* Number of blocks read from a file of n bytes.
NumBlocks(n) == (n + BLOCK_SIZE - 1) \div BLOCK_SIZE
\* data[i*BLOCK_SIZE : (i+1)*BLOCK_SIZE]
BlockOf(data, i) == SubSeq(data, i * BLOCK_SIZE + 1, Min((i + 1) * BLOCK_SIZE, Len(data)))

\* FileMetadata.from_file: the client's fingerprint of a local file.
from_file(path, data) ==
    [path |-> path, size |-> Len(data), full_hash |-> MD5(data),
     blocks |-> [i \in 0..(NumBlocks(Len(data)) - 1) |-> MD5(BlockOf(data, i))]]

\* A Python dict d with key k set to v.
Put(d, k, v) == [x \in (DOMAIN d) \cup {k} |-> IF x = k THEN v ELSE d[x]]
EmptyDict == [x \in {} |-> 0]

\* ------------------------------------------------------------ delta planner
\* DeltaSyncCalculator.calculate_delta, from the lookup of the remote view on
\* (local_meta is the fingerprint of the file just written).
calculate_delta(local_meta, remote_cache_, remote_path) ==
    LET has_remote == remote_path \in DOMAIN remote_cache_ IN
    IF ~has_remote \/ remote_cache_[remote_path].full_hash # local_meta.full_hash
    THEN [type |-> IF has_remote THEN "delta" ELSE "full",
          full_hash |-> local_meta.full_hash,
          size |-> local_meta.size,
          blocks |-> [k \in 1..Cardinality(DOMAIN local_meta.blocks) |-> k - 1]]
    ELSE [type |-> "none",
          full_hash |-> local_meta.full_hash,
          size |-> local_meta.size,
          blocks |-> <<>>]

\* DeltaSyncCalculator.extract_blocks: the (index, data) pairs in the order of
\* block_indices, a block that reads no data left out.
RECURSIVE extract_blocks(_, _)
extract_blocks(data, block_indices) ==
    IF block_indices = <<>> THEN <<>>
    ELSE LET i == Head(block_indices)
             d == BlockOf(data, i)
             rest == extract_blocks(data, Tail(block_indices))
         IN IF d # <<>> THEN <<[index |-> i, data |-> d]>> \o rest ELSE rest

\* The encoded_blocks dict of create_delta_payload: str(index) -> base64.
encode_blocks(blocks) ==
    [k \in 1..Len(blocks) |-> [index |-> IndexStr(blocks[k].index),
                               data |-> b64encode(blocks[k].data)]]

\* create_delta_payload. A payload is a dict: a field the code does not set
\* is not in its domain.
create_delta_payload(data, remote_path, delta_info) ==
    LET base == [path |-> remote_path, delta_type |-> delta_info.type,
                 full_hash |-> delta_info.full_hash, size |-> delta_info.size]
        with_blocks == IF delta_info.blocks # <<>>
                       THEN ("blocks" :> encode_blocks(extract_blocks(data, delta_info.blocks))) @@ base
                       ELSE base
    IN IF delta_info.type = "none" THEN base
       ELSE IF delta_info.type = "full" /\ "blocks" \notin DOMAIN with_blocks
            THEN ("content" :> b64encode(data)) @@ with_blocks
            ELSE with_blocks

\* ------------------------------------------------------ remote file service
\* The server's file system is a dict path -> bytes (fs) and its fingerprint
\* cache is the dict file_metadata_cache (cache). Every handler is an operator
\* from the state before to the state after plus the handler's outcome.

\* The block digests generate_file_metadata computes: str(index) -> digest.
server_blocks(data) ==
    [k \in {IndexStr(i) : i \in 0..(NumBlocks(Len(data)) - 1)} |-> MD5(BlockOf(data, StrIndex(k)))]

\* generate_file_metadata(file_path, content): raised = the HTTP 404 of an
\* empty content argument on a path that is no file.
generate_file_metadata(fs, cache, file_path, content) ==
    IF content = <<>> /\ file_path \notin DOMAIN fs
    THEN [raised |-> TRUE, cache |-> cache]
    ELSE LET data == IF content = <<>> THEN fs[file_path] ELSE content
             size == IF file_path \in DOMAIN fs THEN Len(fs[file_path]) ELSE Len(content)
             metadata == [path |-> file_path, size |-> size, full_hash |-> MD5(data),
                          blocks |-> server_blocks(data)]
         IN [raised |-> FALSE, metadata |-> metadata,
             cache |-> Put(cache, file_path, metadata)]

\* The overlay loop with the block index taken for the byte offset.
RECURSIVE apply_blocks_unscaled(_, _)
apply_blocks_unscaled(content_array, blocks) ==
    IF blocks = <<>> THEN content_array
    ELSE LET block_data == b64decode(Head(blocks).data)
             start_pos == StrIndex(Head(blocks).index)
             end_pos == start_pos + Len(block_data)
             extended == IF end_pos > Len(content_array)
                         THEN content_array \o [i \in 1..(end_pos - Len(content_array)) |-> 0]
                         ELSE content_array
             updated == [i \in 1..Len(extended) |->
                            IF i > start_pos /\ i <= end_pos
                            THEN block_data[i - start_pos] ELSE extended[i]]
         IN apply_blocks_unscaled(updated, Tail(blocks))

\* The overlay loop of process_delta_content (remote_server.py:1290-1302):
\* each block is written at index * block_size, the array zero-extended first
\* when the block ends past its end.
RECURSIVE apply_blocks(_, _)
apply_blocks(content_array, blocks) ==
    IF blocks = <<>> THEN content_array
    ELSE LET block_data == b64decode(Head(blocks).data)
             start_pos == StrIndex(Head(blocks).index) * BLOCK_SIZE
             end_pos == start_pos + Len(block_data)
             extended == IF end_pos > Len(content_array)
                         THEN content_array \o [i \in 1..(end_pos - Len(content_array)) |-> 0]
                         ELSE content_array
             updated == [i \in 1..Len(extended) |->
                            IF i > start_pos /\ i <= end_pos
                            THEN block_data[i - start_pos] ELSE extended[i]]
         IN apply_blocks(updated, Tail(blocks))

ErrorResult(fs, cache, path, message) ==
    [fs |-> fs, cache |-> cache,
     result |-> [status |-> "error", path |-> path, message |-> message]]

SuccessResult(fs, gen, path) ==
    IF gen.raised
    THEN ErrorResult(fs, gen.cache, path, "processing failed")
    ELSE [fs |-> fs, cache |-> gen.cache,
          result |-> [status |-> "success", path |-> path, metadata |-> gen.metadata]]

\* The handler with a delta applied to an empty array when the path holds no
\* file.
process_delta_content_without_base(fs, cache, dc) ==
    LET path == dc.path
        blocks == IF "blocks" \in DOMAIN dc THEN dc.blocks ELSE <<>>
        content == IF "content" \in DOMAIN dc THEN dc.content ELSE <<>>
    IN
    CASE dc.delta_type = "none" ->
            IF path \in DOMAIN cache
            THEN [fs |-> fs, cache |-> cache,
                  result |-> [status |-> "success", path |-> path, metadata |-> cache[path]]]
            ELSE IF path \in DOMAIN fs
                 THEN SuccessResult(fs, generate_file_metadata(fs, cache, path, <<>>), path)
                 ELSE ErrorResult(fs, cache, path, "no file and no content")
      [] dc.delta_type = "full" ->
            IF content # <<>>
            THEN LET data == b64decode(content)
                     fs2 == Put(fs, path, data)
                 IN SuccessResult(fs2, generate_file_metadata(fs2, cache, path, data), path)
            ELSE ErrorResult(fs, cache, path, "full transfer without content")
      [] dc.delta_type = "delta" ->
            IF blocks = <<>>
            THEN ErrorResult(fs, cache, path, "delta transfer without blocks")
            ELSE LET content_array == apply_blocks(IF path \in DOMAIN fs THEN fs[path] ELSE <<>>,
                                                   blocks)
                     fs2 == Put(fs, path, content_array)
                 IN SuccessResult(fs2, generate_file_metadata(fs2, cache, path, content_array), path)
      [] OTHER -> ErrorResult(fs, cache, path, "unsupported delta type")

\* process_delta_content(delta_content): delta_content is the request body; an
\* Optional field that is not sent is None.
process_delta_content(fs, cache, dc) ==
    LET path == dc.path
        blocks == IF "blocks" \in DOMAIN dc THEN dc.blocks ELSE <<>>
        content == IF "content" \in DOMAIN dc THEN dc.content ELSE <<>>
    IN
    CASE dc.delta_type = "none" ->
            IF path \in DOMAIN cache
            THEN [fs |-> fs, cache |-> cache,
                  result |-> [status |-> "success", path |-> path, metadata |-> cache[path]]]
            ELSE IF path \in DOMAIN fs
                 THEN SuccessResult(fs, generate_file_metadata(fs, cache, path, <<>>), path)
                 ELSE ErrorResult(fs, cache, path, "no file and no content")
      [] dc.delta_type = "full" ->
            IF content # <<>>
            THEN LET data == b64decode(content)
                     fs2 == Put(fs, path, data)
                 IN SuccessResult(fs2, generate_file_metadata(fs2, cache, path, data), path)
            ELSE ErrorResult(fs, cache, path, "full transfer without content")
      [] dc.delta_type = "delta" ->
            IF blocks = <<>>
            THEN ErrorResult(fs, cache, path, "delta transfer without blocks")
            ELSE IF path \notin DOMAIN fs
            THEN ErrorResult(fs, cache, path, "no file to apply the delta to")
            ELSE LET content_array == apply_blocks(fs[path], blocks)
                     fs2 == Put(fs, path, content_array)
                 IN SuccessResult(fs2, generate_file_metadata(fs2, cache, path, content_array), path)
      [] OTHER -> ErrorResult(fs, cache, path, "unsupported delta type")

\* The notification bus as a handler sees it: the list active_connections,
\* the connections on which send_json raises, and what each connection has
\* been sent.
NoBus == [conns |-> <<>>, broken |-> {}, delivered |-> EmptyDict]

\* ConnectionManager.broadcast run by a handler to its end: the message is
\* sent to the connections in list order and the first send_json that raises
\* ends the loop with the exception.
RECURSIVE broadcast_from(_, _, _, _)
broadcast_from(conns, brk, dl, message) ==
    IF conns = <<>> THEN [raised |-> FALSE, delivered |-> dl]
    ELSE IF Head(conns) \in brk THEN [raised |-> TRUE, delivered |-> dl]
    ELSE broadcast_from(Tail(conns), brk,
                        [dl EXCEPT ![Head(conns)] = Append(@, message)], message)

broadcast(bus, message) == broadcast_from(bus.conns, bus.broken, bus.delivered, message)

\* update_file_delta (PUT /api/v1/files/delta): the result of
\* process_delta_content, whatever its status, then the broadcast of
\* file_changed; raised = the HTTP 500 of a broadcast that raises.
update_file_delta(fs, cache, bus, dc) ==
    LET r == process_delta_content(fs, cache, dc)
        b == broadcast(bus, [type |-> "file_changed", path |-> dc.path])
    IN [fs |-> r.fs, cache |-> r.cache, result |-> r.result,
        raised |-> b.raised, delivered |-> b.delivered]

\* read_file_content (GET /api/v1/files/content): found = HTTP 200.
read_file_content(fs, cache, path) ==
    IF path \notin DOMAIN fs
    THEN [found |-> FALSE, cache |-> cache]
    ELSE LET gen == generate_file_metadata(fs, cache, path, fs[path])
         IN [found |-> TRUE, cache |-> gen.cache,
             content |-> b64encode(fs[path]), checksum |-> MD5(fs[path]),
             metadata |-> gen.metadata]

\* The write with the content written before the checksum is verified.
write_file_content_write_first(fs, cache, file_content) ==
    LET content == b64decode(file_content.content)
        fs2 == Put(fs, file_content.path, content)
        gen == generate_file_metadata(fs2, cache, file_content.path, content)
    IN IF /\ "checksum" \in DOMAIN file_content
          /\ file_content.checksum # <<>>
          /\ file_content.checksum # MD5(content)
       THEN [ok |-> FALSE, fs |-> fs2, cache |-> cache]
       ELSE [ok |-> TRUE, fs |-> fs2, cache |-> gen.cache, metadata |-> gen.metadata]

\* write_file_content: ok = HTTP 200; a checksum that is sent, is not the
\* empty string (<<>>) and differs from the digest of the decoded content is
\* the HTTP 400 that leaves everything as it was.
write_file_content(fs, cache, file_content) ==
    LET content == b64decode(file_content.content)
    IN IF /\ "checksum" \in DOMAIN file_content
          /\ file_content.checksum # <<>>
          /\ file_content.checksum # MD5(content)
       THEN [ok |-> FALSE, fs |-> fs, cache |-> cache]
       ELSE LET fs2 == Put(fs, file_content.path, content)
                gen == generate_file_metadata(fs2, cache, file_content.path, content)
            IN [ok |-> TRUE, fs |-> fs2, cache |-> gen.cache, metadata |-> gen.metadata]

\* update_file_content (PUT /api/v1/files/content): write_file_content, then
\* the broadcast of file_changed; http is the status of the response.
update_file_content(fs, cache, bus, file_content) ==
    LET w == write_file_content(fs, cache, file_content)
        b == broadcast(bus, [type |-> "file_changed", path |-> file_content.path])
    IN IF ~w.ok
       THEN [http |-> 400, fs |-> w.fs, cache |-> w.cache, delivered |-> bus.delivered]
       ELSE [http |-> IF b.raised THEN 500 ELSE 200,
             fs |-> w.fs, cache |-> w.cache, delivered |-> b.delivered]

\* The state a batch handler starts its loop with.
BatchStart(fs, cache, bus) ==
    [fs |-> fs, cache |-> cache, delivered |-> bus.delivered, details |-> <<>>,
     synchronized |-> 0, failed |-> 0, metadata |-> EmptyDict]

ItemStatus(path, status) == [path |-> path, status |-> status]

\* The loop of sync_files that gives up at the first item that fails.
RECURSIVE sync_files_loop_stops_on_error(_, _, _)
sync_files_loop_stops_on_error(acc, bus, todo) ==
    IF todo = <<>> THEN acc
    ELSE LET file_content == Head(todo)
             w == write_file_content(acc.fs, acc.cache, file_content)
             b == broadcast([bus EXCEPT !.delivered = acc.delivered],
                            [type |-> "file_changed", path |-> file_content.path])
         IN IF ~w.ok
            THEN [acc EXCEPT !.details = Append(@, ItemStatus(file_content.path, "error")),
                             !.failed = @ + 1]
            ELSE sync_files_loop_stops_on_error(
                   [acc EXCEPT !.fs = w.fs, !.cache = w.cache, !.delivered = b.delivered,
                               !.details = Append(@, ItemStatus(file_content.path, "success")),
                               !.synchronized = @ + 1],
                   bus, Tail(todo))

\* The loop of sync_files (POST /api/v1/files/sync): each item is written by
\* write_file_content and counted synchronized, then file_changed is
\* broadcast; an exception of either, caught by the item's except branch, is
\* counted failed.
RECURSIVE sync_files_loop(_, _, _)
sync_files_loop(acc, bus, todo) ==
    IF todo = <<>> THEN acc
    ELSE LET file_content == Head(todo)
             w == write_file_content(acc.fs, acc.cache, file_content)
             b == broadcast([bus EXCEPT !.delivered = acc.delivered],
                            [type |-> "file_changed", path |-> file_content.path])
             error == ItemStatus(file_content.path, "error")
             success == ItemStatus(file_content.path, "success")
         IN sync_files_loop(
              IF ~w.ok
              THEN [acc EXCEPT !.details = Append(@, error), !.failed = @ + 1]
              ELSE [acc EXCEPT !.fs = w.fs, !.cache = w.cache, !.delivered = b.delivered,
                               !.details = IF b.raised THEN @ \o <<success, error>>
                                           ELSE Append(@, success),
                               !.synchronized = @ + 1,
                               !.failed = IF b.raised THEN @ + 1 ELSE @],
              bus, Tail(todo))

\* The response of a batch handler and the state it leaves.
BatchEnd(acc) ==
    [fs |-> acc.fs, cache |-> acc.cache, delivered |-> acc.delivered,
     data |-> [status |-> "success", synchronized |-> acc.synchronized,
               failed |-> acc.failed, details |-> acc.details,
               metadata |-> acc.metadata]]

sync_files(fs, cache, bus, file_sync) ==
    BatchEnd(sync_files_loop(BatchStart(fs, cache, bus), bus, file_sync))

\* The loop of delta_sync_files (POST /api/v1/files/delta_sync): each plan is
\* applied by process_delta_content; a success is counted synchronized, its
\* metadata kept and file_changed broadcast, and a broadcast that raises is
\* caught by the item's except branch and counted failed; a plan whose
\* result is an error is counted failed.
RECURSIVE delta_sync_loop(_, _, _)
delta_sync_loop(acc, bus, todo) ==
    IF todo = <<>> THEN acc
    ELSE LET dc == Head(todo)
             r == process_delta_content(acc.fs, acc.cache, dc)
             b == broadcast([bus EXCEPT !.delivered = acc.delivered],
                            [type |-> "file_changed", path |-> dc.path])
             error == ItemStatus(dc.path, "error")
             success == ItemStatus(dc.path, "success")
         IN delta_sync_loop(
              IF r.result.status # "success"
              THEN [acc EXCEPT !.fs = r.fs, !.cache = r.cache,
                               !.details = Append(@, error), !.failed = @ + 1]
              ELSE [acc EXCEPT !.fs = r.fs, !.cache = r.cache, !.delivered = b.delivered,
                               !.details = IF b.raised THEN @ \o <<success, error>>
                                           ELSE Append(@, success),
                               !.synchronized = @ + 1,
                               !.failed = IF b.raised THEN @ + 1 ELSE @,
                               !.metadata = IF "metadata" \in DOMAIN r.result
                                            THEN Put(@, dc.path, r.result.metadata)
                                            ELSE @],
              bus, Tail(todo))

delta_sync_files(fs, cache, bus, delta_sync) ==
    BatchEnd(delta_sync_loop(BatchStart(fs, cache, bus), bus, delta_sync))

\* ------------------------------------------------------------------ client
\* SimplifiedMCPClient.update_file_content with use_delta_sync set: the
\* content goes to a fresh temporary file, whose fingerprint enters the local
\* view under the temporary path; the plan is encoded and PUT to
\* /api/v1/files/delta; a response that carries metadata updates the remote
\* view; an HTTP 200 makes the method return True, any other status False.
client_update_file_content(fs, cache, bus, lc, rc, remote_path, content) ==
    LET local_meta == from_file(TmpPath, content)
        delta_info == calculate_delta(local_meta, rc, remote_path)
        payload == create_delta_payload(content, remote_path, delta_info)
        srv == update_file_delta(fs, cache, bus, payload)
        data == srv.result
    IN [fs |-> srv.fs, cache |-> srv.cache, delivered |-> srv.delivered,
        local_cache |-> Put(lc, TmpPath, local_meta),
        remote_cache |-> IF ~srv.raised /\ "metadata" \in DOMAIN data
                         THEN Put(rc, data.metadata.path, data.metadata) ELSE rc,
        delta_info |-> delta_info, payload |-> payload, data |-> data,
        returned |-> ~srv.raised]

\* The loop of SimplifiedMCPClient.sync_files that plans each file change
\* (client.py:335-378): a `none` plan is skipped, any other is encoded.
RECURSIVE sync_plan_loop(_, _)
sync_plan_loop(acc, file_changes) ==
    IF file_changes = <<>> THEN acc
    ELSE LET f == Head(file_changes)
             local_meta == from_file(TmpPath, f.content)
             delta_info == calculate_delta(local_meta, acc.remote_cache, f.path)
         IN sync_plan_loop(
              [local_cache |-> Put(acc.local_cache, TmpPath, local_meta),
               remote_cache |-> acc.remote_cache,
               plans |-> Append(acc.plans, delta_info.type),
               files |-> IF delta_info.type = "none" THEN acc.files
                         ELSE Append(acc.files,
                                     create_delta_payload(f.content, f.path, delta_info))],
              Tail(file_changes))

\* update_remote_metadata for every entry of the response's metadata dict.
RECURSIVE update_remote_all(_, _)
update_remote_all(rc, metadata) ==
    IF DOMAIN metadata = {} THEN rc
    ELSE LET k == CHOOSE x \in DOMAIN metadata : TRUE
             rest == [x \in (DOMAIN metadata) \ {k} |-> metadata[x]]
         IN update_remote_all(Put(rc, metadata[k].path, metadata[k]), rest)

\* SimplifiedMCPClient.sync_files with use_delta_sync set.
client_sync_files(fs, cache, bus, lc, rc, file_changes) ==
    LET planned == sync_plan_loop([local_cache |-> lc, remote_cache |-> rc,
                                   plans |-> <<>>, files |-> <<>>], file_changes)
    IN IF planned.files = <<>>
       THEN [fs |-> fs, cache |-> cache, delivered |-> bus.delivered,
             local_cache |-> planned.local_cache,
             remote_cache |-> rc, plans |-> planned.plans, files |-> <<>>,
             data |-> [status |-> "success", synchronized |-> 0, failed |-> 0]]
       ELSE LET srv == delta_sync_files(fs, cache, bus, planned.files)
            IN [fs |-> srv.fs, cache |-> srv.cache, delivered |-> srv.delivered,
                local_cache |-> planned.local_cache,
                remote_cache |-> update_remote_all(rc, srv.data.metadata),
                plans |-> planned.plans, files |-> planned.files,
                data |-> srv.data]

\* SimplifiedMCPClient.get_file_content with use_delta_sync set: the metadata
\* of an HTTP 200 response enters the remote view.
client_get_file_content(fs, cache, rc, remote_path) ==
    LET srv == read_file_content(fs, cache, remote_path)
    IN IF srv.found
       THEN [cache |-> srv.cache, found |-> TRUE,
             remote_cache |-> Put(rc, srv.metadata.path, srv.metadata),
             content |-> b64decode(srv.content)]
       ELSE [cache |-> srv.cache, found |-> FALSE, remote_cache |-> rc]

\* ==================================================================== state
VARIABLES
    files,                \* server: path -> bytes of every file that exists
    file_metadata_cache,  \* server: path -> last fingerprint generated
    local_cache,          \* client MetadataCache.local_cache
    remote_cache,         \* client MetadataCache.remote_cache
    last,                 \* the last client or server operation and its outcome
    pin,                  \* inputs of a single planner/codec/applier run
    pout,                 \* outcome of that run
    active_commands,      \* server: command id -> command record
    run_task,             \* where the run_command task of each command stands
    read_task,            \* state of the two read_stream tasks of each command
    process,              \* the subprocess of each command
    active_connections,   \* ConnectionManager.active_connections
    broken,               \* the connections on which send_json raises
    accepted,             \* the connections that were ever accepted
    delivered,            \* connection -> the messages sent to it, in order
    sending,              \* task -> its broadcast in progress
    published,            \* the messages broadcast was called with
    watchers,             \* command id -> connections registered since its submission
    server_repo,          \* the git repository at the server's sync path
    client_repo,          \* the git repository of the client's workspace
    conflict_files,       \* server: repository path -> recorded GitConflictFile list
    git_run,              \* the patch-sync calls made so far, with their results
    use_delta_sync,       \* client: SimplifiedMCPClient.use_delta_sync
    requests,             \* the HTTP requests the client has sent, with their responses
    cache_file,           \* client: the text of the cache file on disk
    save_task,            \* where a call of MetadataCache.save_cache stands
    writers,              \* server: request id -> the write request in flight
    ws_handler            \* server: connection -> where its /ws handler stands

syncVars == <<files, file_metadata_cache, local_cache, remote_cache, last>>
planVars == <<pin, pout>>
cmdVars == <<active_commands, run_task, read_task, process, active_connections, broken>>
busVars == <<accepted, delivered, sending, published, watchers>>
gitVars == <<server_repo, client_repo, conflict_files, git_run>>
otherVars == <<use_delta_sync, requests, cache_file, save_task, writers, ws_handler>>
vars == <<files, file_metadata_cache, local_cache, remote_cache, last, pin, pout,
          active_commands, run_task, read_task, process, active_connections, broken,
          accepted, delivered, sending, published, watchers,
          server_repo, client_repo, conflict_files, git_run,
          use_delta_sync, requests, cache_file, save_task, writers, ws_handler>>

\* Contents the synchronisation scenarios draw from: the byte strings of at
\* most MaxLen bytes whose bytes never decrease.
SyncContents == {c \in Contents : \A i \in 1..(Len(c) - 1) : c[i] <= c[i + 1]}

NoLast == [op |-> "init", path |-> "", plan |-> "", ok |-> FALSE,
           new |-> FALSE, repeat |-> FALSE, sent |-> 0]
NoPlanRun == [kind |-> "off"]
NoPlanOut == [done |-> FALSE]

\* The command executor and the notification bus of a server that has just
\* started: no command, no connection.
NoCommands ==
    /\ active_commands = EmptyDict
    /\ run_task = EmptyDict
    /\ read_task = EmptyDict
    /\ process = EmptyDict
    /\ active_connections = <<>>
    /\ broken = {}
    /\ accepted = {}
    /\ delivered = EmptyDict
    /\ sending = EmptyDict
    /\ published = {}
    /\ watchers = EmptyDict

\* Patch sync not in use: no repository at the sync path on either end.
NoGit ==
    /\ server_repo = EmptyDict
    /\ client_repo = EmptyDict
    /\ conflict_files = EmptyDict
    /\ git_run = <<>>

\* A client constructed with its defaults and no cache file, no cache flush
\* under way, no write request in flight and no /ws handler.
NoOther ==
    /\ use_delta_sync = TRUE
    /\ requests = <<>>
    /\ cache_file = <<>>
    /\ save_task = [state |-> "idle"]
    /\ writers = EmptyDict
    /\ ws_handler = EmptyDict

\* The state after the server and the client are constructed on an empty
\* workspace with no cache file.
Init ==
    /\ files = EmptyDict
    /\ file_metadata_cache = EmptyDict
    /\ local_cache = EmptyDict
    /\ remote_cache = EmptyDict
    /\ last = NoLast
    /\ pin = NoPlanRun
    /\ pout = NoPlanOut
    /\ NoCommands
    /\ NoGit
    /\ NoOther

\* The notification bus as it stands.
Bus == [conns |-> active_connections, broken |-> broken, delivered |-> delivered]

\* The content most recently handed to the delta client, read off the local
\* view (the fingerprint stored under the temporary path).
LastContent == local_cache[TmpPath].full_hash[2]

\* PUT /api/v1/files/content by a whole-file client (use_delta_sync unset):
\* SimplifiedMCPClient.update_file_content sends content and checksum, the
\* endpoint update_file_content writes them.
PutContent(p, c) ==
    \E srv \in {update_file_content(files, file_metadata_cache, Bus,
                   [path |-> p, content |-> b64encode(c), checksum |-> MD5(c)])} :
       /\ files' = srv.fs
       /\ file_metadata_cache' = srv.cache
       /\ delivered' = srv.delivered
       /\ last' = [NoLast EXCEPT !.op = "put", !.path = p, !.ok = (srv.http = 200)]
       /\ UNCHANGED <<gitVars, otherVars, local_cache, remote_cache, planVars, cmdVars,
                      accepted, sending, published, watchers>>

\* The delta client reads a file (get_file_content).
ClientGet(p) ==
    \E r \in {client_get_file_content(files, file_metadata_cache, remote_cache, p)} :
       /\ file_metadata_cache' = r.cache
       /\ remote_cache' = r.remote_cache
       /\ last' = [NoLast EXCEPT !.op = "get", !.path = p, !.ok = r.found]
       /\ UNCHANGED <<gitVars, otherVars, files, local_cache, planVars, cmdVars, busVars>>

\* The delta client updates one file (update_file_content).
ClientUpdate(p, c) ==
    \E r \in {client_update_file_content(files, file_metadata_cache, Bus, local_cache,
                                        remote_cache, p, c)} :
       /\ files' = r.fs
       /\ delivered' = r.delivered
       /\ file_metadata_cache' = r.cache
       /\ local_cache' = r.local_cache
       /\ remote_cache' = r.remote_cache
       /\ last' = [op |-> "update", path |-> p, plan |-> r.delta_info.type,
                   ok |-> r.returned,
                   new |-> p \notin DOMAIN files /\ p \notin DOMAIN remote_cache,
                   repeat |-> FALSE, sent |-> 1]
       /\ UNCHANGED <<gitVars, otherVars, planVars, cmdVars, accepted, sending, published, watchers>>

\* The delta client syncs a batch of one file change (sync_files). The sync
\* is reported successful when the response says so and counts no failure.
ClientSyncFiles(p, c) ==
    \E r \in {client_sync_files(files, file_metadata_cache, Bus, local_cache,
                               remote_cache, <<[path |-> p, content |-> c]>>)} :
       /\ files' = r.fs
       /\ delivered' = r.delivered
       /\ file_metadata_cache' = r.cache
       /\ local_cache' = r.local_cache
       /\ remote_cache' = r.remote_cache
       /\ last' = [op |-> "sync_files", path |-> p, plan |-> r.plans[1],
                   ok |-> r.data.status = "success" /\ r.data.failed = 0,
                   new |-> p \notin DOMAIN files /\ p \notin DOMAIN remote_cache,
                   repeat |-> /\ last.op = "sync_files" /\ last.path = p
                              /\ LastContent = c,
                   sent |-> Len(r.files)]
       /\ UNCHANGED <<gitVars, otherVars, planVars, cmdVars, accepted, sending, published, watchers>>

NextSync ==
    \/ \E p \in Paths, c \in SyncContents : PutContent(p, c)
    \/ \E p \in Paths : ClientGet(p)
    \/ \E p \in Paths, c \in SyncContents : ClientUpdate(p, c)
    \/ \E p \in Paths, c \in SyncContents : ClientSyncFiles(p, c)

\* ------------------------------------------- single planner / applier runs
\* A run of the client's update against a server whose file at the path is A
\* (or absent), with the fingerprint of A cached in the remote view or not;
\* and a run of the delta endpoint on a request body built by hand: a `delta`
\* plan that advertises size and carries the blocks sel of B.
ClientRuns ==
    {[kind |-> "client", has |-> TRUE, A |-> a, cached |-> k, B |-> b] :
        a \in Contents, k \in BOOLEAN, b \in Contents}
    \cup {[kind |-> "client", has |-> FALSE, A |-> <<>>, cached |-> FALSE, B |-> b] :
        b \in Contents}
RawRuns ==
    {[kind |-> "raw", has |-> TRUE, A |-> a, B |-> b, size |-> n, sel |-> s] :
        a \in SyncContents, b \in SyncContents, n \in 0..MaxLen,
        s \in SUBSET (0..(MaxBlocks - 1))}

InitPlan ==
    /\ files = EmptyDict
    /\ file_metadata_cache = EmptyDict
    /\ local_cache = EmptyDict
    /\ remote_cache = EmptyDict
    /\ last = NoLast
    /\ pin \in ClientRuns \cup RawRuns
    /\ pout = NoPlanOut
    /\ NoCommands
    /\ NoGit
    /\ NoOther

RunPath == CHOOSE p \in Paths : TRUE

\* The server before the run: the file written and fingerprinted by
\* write_file_content; the remote view as get_file_content leaves it.
RunServer ==
    IF pin.has
    THEN write_file_content(EmptyDict, EmptyDict,
                            [path |-> RunPath, content |-> b64encode(pin.A)])
    ELSE [ok |-> TRUE, fs |-> EmptyDict, cache |-> EmptyDict]
RunRemoteView ==
    IF pin.kind = "client" /\ pin.cached
    THEN client_get_file_content(RunServer.fs, RunServer.cache, EmptyDict, RunPath).remote_cache
    ELSE EmptyDict

\* The ascending sequence of the indices in s.
RECURSIVE IndexSeq(_)
IndexSeq(s) ==
    IF s = {} THEN <<>>
    ELSE LET m == CHOOSE x \in s : \A y \in s : x <= y
         IN <<m>> \o IndexSeq(s \ {m})

\* update_file_content on the run's content B, then a read of the file.
RunClientUpdate ==
    /\ pin.kind = "client"
    /\ ~pout.done
    /\ \E r \in {client_update_file_content(RunServer.fs, RunServer.cache, NoBus, EmptyDict,
                                            RunRemoteView, RunPath, pin.B)} :
       \E back \in {read_file_content(r.fs, r.cache, RunPath)} :
          pout' = [done |-> TRUE,
                   plan |-> r.delta_info.type,
                   indices |-> {r.delta_info.blocks[k] : k \in DOMAIN r.delta_info.blocks},
                   status |-> r.data.status,
                   returned |-> r.returned,
                   metadata |-> IF "metadata" \in DOMAIN r.data
                                THEN <<r.data.metadata>> ELSE <<>>,
                   remote_view |-> r.remote_cache,
                   file |-> IF RunPath \in DOMAIN r.fs THEN <<r.fs[RunPath]>> ELSE <<>>,
                   back |-> IF back.found
                            THEN <<[content |-> b64decode(back.content),
                                    full_hash |-> back.metadata.full_hash]>>
                            ELSE <<>>]
    /\ UNCHANGED <<gitVars, otherVars, pin, syncVars, cmdVars, busVars>>

\* PUT /api/v1/files/delta with the hand-built `delta` plan.
RunRawDelta ==
    /\ pin.kind = "raw"
    /\ ~pout.done
    /\ \E dc \in {[path |-> RunPath, delta_type |-> "delta", full_hash |-> MD5(pin.B),
                   size |-> pin.size,
                   blocks |-> encode_blocks(extract_blocks(pin.B, IndexSeq(pin.sel)))]} :
       \E r \in {update_file_delta(RunServer.fs, RunServer.cache, NoBus, dc)} :
          pout' = [done |-> TRUE,
                   status |-> r.result.status,
                   file |-> IF RunPath \in DOMAIN r.fs THEN <<r.fs[RunPath]>> ELSE <<>>]
    /\ UNCHANGED <<gitVars, otherVars, pin, syncVars, cmdVars, busVars>>

NextPlan ==
    \/ RunClientUpdate
    \/ RunRawDelta


Spec == Init /\ [][NextSync]_vars

PlanSpec == InitPlan /\ [][NextPlan]_vars

\* ========================================================= command executor
\* The ids execute_command hands out (uuid4). Commands share nothing but the
\* notification bus, so one command is followed.
CommandIds == {"c1"}
Observers == {"o1", "o2"}
Streams == {"stdout", "stderr"}
\* Exit codes of a subprocess that ends by itself; -15 and -9 are the return
\* codes of one ended by terminate() and by kill().
ExitCodes == {0, 1}
Terminal == {"completed", "failed", "timeout"}

\* One turn of the loop of ConnectionManager.broadcast, taken when the
\* broadcast starts and each time the task comes back from the await of
\* send_json: the list iterator looks at the element at its index in the list
\* as it is now; the loop ends when there is none, send_json raises on a
\* broken connection, and otherwise the message is sent and the task
\* suspends. b is the broadcast: its message, the iterator's index, how it
\* stands, and as bookkeeping the connections that are registered and sound
\* since its start (stayed) and the connections it has sent to (got).
BroadcastTurn(b) ==
    IF b.cursor >= Len(active_connections)
    THEN [kind |-> "end", b |-> [b EXCEPT !.state = "ended"]]
    ELSE LET o == active_connections[b.cursor + 1]
         IN IF o \in broken
            THEN [kind |-> "raised", b |-> [b EXCEPT !.state = "raised"]]
            ELSE [kind |-> "sent", to |-> o,
                  b |-> [b EXCEPT !.cursor = @ + 1, !.got = @ \cup {o}]]

\* The broadcast of message as its caller starts it.
NewBroadcast(message) ==
    [msg |-> message, cursor |-> 0, state |-> "suspended",
     stayed |-> {active_connections[i] : i \in DOMAIN active_connections} \ broken,
     got |-> {}]

\* The bus after a turn of the broadcast of task: delivered gains the message
\* sent; sending holds the broadcast, suspended or as it ended.
BusAfterTurn(task, turn) ==
    /\ delivered' = IF turn.kind = "sent"
                    THEN [delivered EXCEPT ![turn.to] = Append(@, turn.b.msg)]
                    ELSE delivered
    /\ sending' = Put(sending, task, turn.b)

\* The broadcasts in progress after connection o broke or left.
SendingWithout(o) ==
    [t \in DOMAIN sending |->
        IF sending[t].state = "suspended"
        THEN [sending[t] EXCEPT !.stayed = @ \ {o}] ELSE sending[t]]

\* The except branch with the error text assigned to the output instead of
\* appended to it.
command_failed_overwrites(info) ==
    [info EXCEPT !.status = "failed",
                 !.output = <<<<"error", 0>>>>,
                 !.end_time = TRUE]

\* The except branch of run_command (remote_server.py:1098-1103).
command_failed(info) ==
    [info EXCEPT !.status = "failed",
                 !.output = Append(@, <<"error", 0>>),
                 !.end_time = TRUE]

\* Lines of stream s already appended to the output of command c.
LinesRead(c, s) ==
    Cardinality({i \in DOMAIN active_commands[c].output : active_commands[c].output[i][1] = s})

\* execute_command: the record is created pending and the run_command task
\* is created; the id is fresh.
Submit ==
    /\ CommandIds \ DOMAIN active_commands # {}
    /\ LET id == CHOOSE i \in CommandIds : i \notin DOMAIN active_commands
       IN /\ active_commands' = Put(active_commands, id,
                 [status |-> "pending", exit_code |-> <<>>, output |-> <<>>,
                  end_time |-> FALSE])
          /\ run_task' = Put(run_task, id, "created")
          /\ read_task' = Put(read_task, id, [stdout |-> "none", stderr |-> "none"])
          /\ process' = Put(process, id, [state |-> "none", returncode |-> <<>>,
                                          terminated |-> FALSE, killed |-> FALSE])
          /\ watchers' = Put(watchers, id,
                 {active_connections[i] : i \in DOMAIN active_connections} \ broken)
    /\ UNCHANGED <<gitVars, otherVars, active_connections, broken, accepted, delivered, sending, published,
                   syncVars, planVars>>

\* run_command from its start to the await of create_subprocess_shell: the
\* status becomes running and the working directory is made.
RunStart(c) ==
    /\ c \in DOMAIN run_task /\ run_task[c] = "created"
    /\ active_commands' = [active_commands EXCEPT ![c].status = "running"]
    /\ run_task' = [run_task EXCEPT ![c] = "spawning"]
    /\ UNCHANGED <<gitVars, otherVars, read_task, process, active_connections, broken, syncVars, planVars, busVars>>

\* The same stretch when os.makedirs raises: the except branch runs before
\* the task ever suspends.
RunStartFails(c) ==
    /\ c \in DOMAIN run_task /\ run_task[c] = "created"
    /\ active_commands' = [active_commands EXCEPT ![c] = command_failed(@)]
    /\ run_task' = [run_task EXCEPT ![c] = "done"]
    /\ UNCHANGED <<gitVars, otherVars, read_task, process, active_connections, broken, syncVars, planVars, busVars>>

\* create_subprocess_shell returns the process; the two read_stream tasks are
\* created and the task awaits wait_for(process.wait(), timeout).
SpawnOk(c) ==
    /\ c \in DOMAIN run_task /\ run_task[c] = "spawning"
    /\ process' = [process EXCEPT ![c].state = "alive"]
    /\ read_task' = [read_task EXCEPT ![c] = [stdout |-> "reading", stderr |-> "reading"]]
    /\ run_task' = [run_task EXCEPT ![c] = "waiting"]
    /\ UNCHANGED <<gitVars, otherVars, active_commands, active_connections, broken, syncVars, planVars, busVars>>

\* create_subprocess_shell raises.
SpawnFails(c) ==
    /\ c \in DOMAIN run_task /\ run_task[c] = "spawning"
    /\ active_commands' = [active_commands EXCEPT ![c] = command_failed(@)]
    /\ run_task' = [run_task EXCEPT ![c] = "done"]
    /\ UNCHANGED <<gitVars, otherVars, read_task, process, active_connections, broken, syncVars, planVars, busVars>>

\* The subprocess ends by itself, or by the signal terminate() sent.
ProcExits(c, code) ==
    /\ c \in DOMAIN process /\ process[c].state = "alive"
    /\ code \in (IF process[c].terminated THEN {-15} ELSE ExitCodes)
    /\ process' = [process EXCEPT ![c].state = "exited", ![c].returncode = <<code>>]
    /\ UNCHANGED <<gitVars, otherVars, active_commands, run_task, read_task, active_connections, broken,
                   syncVars, planVars, busVars>>

\* Where a read_stream task stands after a turn of its broadcast: back at
\* readline when the loop ended, ended by the exception when send_json
\* raised, suspended in send_json otherwise.
ReaderAfter(turn) ==
    CASE turn.kind = "end" -> "reading"
      [] turn.kind = "raised" -> "raised"
      [] OTHER -> "sending"

\* One turn of the loop of read_stream that reads a line: the line is
\* appended to the output and the broadcast of its command_output starts.
ReadLine(c, s) ==
    /\ c \in DOMAIN read_task /\ read_task[c][s] = "reading"
    /\ LinesRead(c, "stdout") + LinesRead(c, "stderr") < MaxLines
    /\ \E line \in {<<s, LinesRead(c, s) + 1>>} :
       \E message \in {[type |-> "command_output", command_id |-> c, stream |-> s,
                        content |-> line]} :
       \E turn \in {BroadcastTurn(NewBroadcast(message))} :
          /\ active_commands' = [active_commands EXCEPT ![c].output = Append(@, line)]
          /\ published' = published \cup {message}
          /\ read_task' = [read_task EXCEPT ![c][s] = ReaderAfter(turn)]
          /\ BusAfterTurn(<<c, s>>, turn)
    /\ UNCHANGED <<gitVars, otherVars, run_task, process, active_connections, broken, accepted, watchers,
                   syncVars, planVars>>

\* A read_stream task comes back from the await of send_json.
ReaderResumes(c, s) ==
    /\ c \in DOMAIN read_task /\ read_task[c][s] = "sending"
    /\ \E turn \in {BroadcastTurn(sending[<<c, s>>])} :
          /\ read_task' = [read_task EXCEPT ![c][s] = ReaderAfter(turn)]
          /\ BusAfterTurn(<<c, s>>, turn)
    /\ UNCHANGED <<gitVars, otherVars, active_commands, run_task, process, active_connections, broken,
                   accepted, published, watchers, syncVars, planVars>>

\* The turn that reads end-of-stream: the pipe closes when the process ends.
ReadEof(c, s) ==
    /\ c \in DOMAIN read_task /\ read_task[c][s] = "reading"
    /\ process[c].state = "exited"
    /\ read_task' = [read_task EXCEPT ![c][s] = "eof"]
    /\ UNCHANGED <<gitVars, otherVars, active_commands, run_task, process, active_connections, broken,
                   syncVars, planVars, busVars>>

\* wait_for returns the exit code of the process (remote_server.py:1073-1075).
WaitReturns(c) ==
    /\ c \in DOMAIN run_task /\ run_task[c] = "waiting"
    /\ process[c].state = "exited"
    /\ active_commands' = [active_commands EXCEPT
                              ![c].exit_code = process[c].returncode,
                              ![c].status = "completed"]
    /\ run_task' = [run_task EXCEPT ![c] = "gather"]
    /\ UNCHANGED <<gitVars, otherVars, read_task, process, active_connections, broken, syncVars, planVars, busVars>>

\* The timeout branch without the assignment of the status.
TimeoutFires_status_kept(c) ==
    /\ c \in DOMAIN run_task /\ run_task[c] = "waiting"
    /\ process[c].state = "alive"
    /\ process' = [process EXCEPT ![c].terminated = TRUE]
    /\ run_task' = [run_task EXCEPT ![c] = "grace"]
    /\ UNCHANGED <<gitVars, otherVars, active_commands, read_task, active_connections, broken,
                   syncVars, planVars, busVars>>

\* wait_for raises TimeoutError: status timeout, terminate(), then the sleep
\* of one second (remote_server.py:1076-1080).
TimeoutFires(c) ==
    /\ c \in DOMAIN run_task /\ run_task[c] = "waiting"
    /\ process[c].state = "alive"
    /\ active_commands' = [active_commands EXCEPT ![c].status = "timeout"]
    /\ process' = [process EXCEPT ![c].terminated = TRUE]
    /\ run_task' = [run_task EXCEPT ![c] = "grace"]
    /\ UNCHANGED <<gitVars, otherVars, read_task, active_connections, broken, syncVars, planVars, busVars>>

\* The end of the sleep with the kill issued whatever the return code.
GraceOver_kills_always(c) ==
    /\ c \in DOMAIN run_task /\ run_task[c] = "grace"
    /\ process' = [process EXCEPT ![c].killed = TRUE, ![c].state = "exited",
                                  ![c].returncode = <<-9>>]
    /\ run_task' = [run_task EXCEPT ![c] = "gather"]
    /\ UNCHANGED <<gitVars, otherVars, active_commands, read_task, active_connections, broken,
                   syncVars, planVars, busVars>>

\* The sleep ends: a process with no return code yet is killed; the task
\* awaits the gather of the two readers (remote_server.py:1081-1085).
GraceOver(c) ==
    /\ c \in DOMAIN run_task /\ run_task[c] = "grace"
    /\ process' = IF process[c].returncode = <<>>
                  THEN [process EXCEPT ![c].killed = TRUE, ![c].state = "exited",
                                       ![c].returncode = <<-9>>]
                  ELSE process
    /\ run_task' = [run_task EXCEPT ![c] = "gather"]
    /\ UNCHANGED <<gitVars, otherVars, active_commands, read_task, active_connections, broken,
                   syncVars, planVars, busVars>>

\* gather re-raises the exception of a reader: the except branch runs.
GatherRaises(c) ==
    /\ c \in DOMAIN run_task /\ run_task[c] = "gather"
    /\ \E s \in Streams : read_task[c][s] = "raised"
    /\ active_commands' = [active_commands EXCEPT ![c] = command_failed(@)]
    /\ run_task' = [run_task EXCEPT ![c] = "done"]
    /\ UNCHANGED <<gitVars, otherVars, read_task, process, active_connections, broken, syncVars, planVars, busVars>>

\* The record of a command after a turn of the broadcast of its
\* command_completed: the except branch runs when send_json raised.
CommandAfter(info, turn) ==
    IF turn.kind = "raised" THEN command_failed(info) ELSE info

\* The announcement made without the gather of the readers: as soon as the
\* process wait is over, whatever the readers are doing.
GatherDone_before_eof(c) ==
    /\ c \in DOMAIN run_task /\ run_task[c] = "gather"
    /\ \A s \in Streams : read_task[c][s] # "raised"
    /\ \E message \in {[type |-> "command_completed", command_id |-> c,
                        status |-> active_commands[c].status,
                        exit_code |-> active_commands[c].exit_code]} :
       \E turn \in {BroadcastTurn(NewBroadcast(message))} :
          /\ active_commands' = [active_commands EXCEPT
                                    ![c] = CommandAfter([@ EXCEPT !.end_time = TRUE], turn)]
          /\ published' = published \cup {message}
          /\ run_task' = [run_task EXCEPT ![c] = IF turn.kind = "sent" THEN "announcing"
                                                 ELSE "done"]
          /\ BusAfterTurn(<<c, "run">>, turn)
    /\ UNCHANGED <<gitVars, otherVars, read_task, process, active_connections, broken, accepted, watchers,
                   syncVars, planVars>>

\* Both readers are at end-of-stream: gather returns, end_time is set and the
\* broadcast of command_completed starts (remote_server.py:1085-1096).
GatherDone(c) ==
    /\ c \in DOMAIN run_task /\ run_task[c] = "gather"
    /\ \A s \in Streams : read_task[c][s] = "eof"
    /\ \E message \in {[type |-> "command_completed", command_id |-> c,
                        status |-> active_commands[c].status,
                        exit_code |-> active_commands[c].exit_code]} :
       \E turn \in {BroadcastTurn(NewBroadcast(message))} :
          /\ active_commands' = [active_commands EXCEPT
                                    ![c] = CommandAfter([@ EXCEPT !.end_time = TRUE], turn)]
          /\ published' = published \cup {message}
          /\ run_task' = [run_task EXCEPT ![c] = IF turn.kind = "sent" THEN "announcing"
                                                 ELSE "done"]
          /\ BusAfterTurn(<<c, "run">>, turn)
    /\ UNCHANGED <<gitVars, otherVars, read_task, process, active_connections, broken, accepted, watchers,
                   syncVars, planVars>>

\* run_command comes back from the await of send_json in that broadcast.
AnnounceResumes(c) ==
    /\ c \in DOMAIN run_task /\ run_task[c] = "announcing"
    /\ \E turn \in {BroadcastTurn(sending[<<c, "run">>])} :
          /\ active_commands' = [active_commands EXCEPT ![c] = CommandAfter(@, turn)]
          /\ run_task' = [run_task EXCEPT ![c] = IF turn.kind = "sent" THEN "announcing"
                                                 ELSE "done"]
          /\ BusAfterTurn(<<c, "run">>, turn)
    /\ UNCHANGED <<gitVars, otherVars, read_task, process, active_connections, broken, accepted, published,
                   watchers, syncVars, planVars>>

\* websocket_endpoint accepts a connection: ConnectionManager.connect appends
\* it to the list, and the handler enters its receive loop. A connection
\* object is accepted once; the connections are named in the order they are
\* accepted.
WsConnect(o) ==
    /\ o \notin accepted
    /\ o = "o1" \/ "o1" \in accepted
    /\ accepted' = accepted \cup {o}
    /\ active_connections' = Append(active_connections, o)
    /\ delivered' = Put(delivered, o, <<>>)
    /\ ws_handler' = Put(ws_handler, o, "receiving")
    /\ UNCHANGED <<gitVars, use_delta_sync, requests, cache_file, save_task, writers,
                   active_commands, run_task, read_task, process, broken, sending,
                   published, watchers, syncVars, planVars>>

\* The peer of a connection goes away: send_json on it raises from now on.
WsBreak(o) ==
    /\ \E i \in DOMAIN active_connections : active_connections[i] = o
    /\ o \notin broken
    /\ broken' = broken \cup {o}
    /\ watchers' = [c \in DOMAIN watchers |-> watchers[c] \ {o}]
    /\ sending' = SendingWithout(o)
    /\ UNCHANGED <<gitVars, otherVars, active_commands, run_task, read_task, process, active_connections,
                   accepted, delivered, published, syncVars, planVars>>

\* websocket_endpoint receives WebSocketDisconnect: ConnectionManager.disconnect
\* removes the connection from the list, under the iterators of the
\* broadcasts in progress, and the handler returns.
WsDisconnect(o) ==
    /\ \E i \in DOMAIN active_connections : active_connections[i] = o
    /\ ws_handler[o] = "receiving"
    /\ active_connections' = SelectSeq(active_connections, LAMBDA x : x # o)
    /\ broken' = broken \ {o}
    /\ watchers' = [c \in DOMAIN watchers |-> watchers[c] \ {o}]
    /\ sending' = SendingWithout(o)
    /\ ws_handler' = [ws_handler EXCEPT ![o] = "ended"]
    /\ UNCHANGED <<gitVars, use_delta_sync, requests, cache_file, save_task, writers,
                   active_commands, run_task, read_task, process, accepted, delivered,
                   published, syncVars, planVars>>

NextCmd ==
    \/ Submit
    \/ \E c \in CommandIds : RunStart(c)
    \/ \E c \in CommandIds : RunStartFails(c)
    \/ \E c \in CommandIds : SpawnOk(c)
    \/ \E c \in CommandIds : SpawnFails(c)
    \/ \E c \in CommandIds, code \in ExitCodes \cup {-15} : ProcExits(c, code)
    \/ \E c \in CommandIds, s \in Streams : ReadLine(c, s)
    \/ \E c \in CommandIds, s \in Streams : ReaderResumes(c, s)
    \/ \E c \in CommandIds, s \in Streams : ReadEof(c, s)
    \/ \E c \in CommandIds : WaitReturns(c)
    \/ \E c \in CommandIds : TimeoutFires(c)
    \/ \E c \in CommandIds : GraceOver(c)
    \/ \E c \in CommandIds : GatherRaises(c)
    \/ \E c \in CommandIds : GatherDone(c)
    \/ \E c \in CommandIds : AnnounceResumes(c)
    \/ \E o \in Observers : WsConnect(o)
    \/ \E o \in Observers : WsBreak(o)
    \/ \E o \in Observers : WsDisconnect(o)

CmdSpec == Init /\ [][NextCmd]_vars

\* The scheduler runs every task that can run, a started spawn returns or
\* raises, and the timeout of a command whose process is alive fires.
CmdFairness ==
    \A c \in CommandIds :
        /\ WF_vars(RunStart(c) \/ RunStartFails(c))
        /\ WF_vars(SpawnOk(c) \/ SpawnFails(c))
        /\ WF_vars(WaitReturns(c))
        /\ WF_vars(TimeoutFires(c))

FairCmdSpec == Init /\ [][NextCmd]_vars /\ CmdFairness

\* ============================================== single requests to the server
\* One request to a file endpoint of a server that holds one file or none and
\* has zero, one or two observers connected, some of them gone silently.
BatchPaths == {"/w/f", "/w/g"}
BatchContents == {c \in Contents : Len(c) <= 1}
PreFiles == {<<>>, <<<<1>>>>, <<<<0, 1>>>>}
BusShapes ==
    {[conns |-> s, broken |-> b] :
        s \in {<<>>, <<"o1">>, <<"o1", "o2">>}, b \in SUBSET {"o1", "o2"}}

\* The checksum field of a FileContent request body: the digest of the
\* content, another digest, or the empty string.
Checksum(c, kind) ==
    CASE kind = "good" -> MD5(c)
      [] kind = "bad" -> MD5(c \o <<0>>)
      [] OTHER -> <<>>

\* FileContent request bodies, the checksum sent or left out.
FileItems ==
    {[path |-> p, content |-> b64encode(c)] : p \in BatchPaths, c \in BatchContents}
    \cup {[path |-> p, content |-> b64encode(c), checksum |-> Checksum(c, k)] :
            p \in BatchPaths, c \in BatchContents, k \in {"good", "bad", "empty"}}

\* DeltaContent request bodies: a full plan with its content or without, a
\* delta plan with block 0 or without blocks, a none plan.
DeltaItems ==
    {[path |-> p, delta_type |-> "full", full_hash |-> MD5(c), size |-> Len(c),
      content |-> b64encode(c)] : p \in BatchPaths, c \in BatchContents}
    \cup {[path |-> p, delta_type |-> "delta", full_hash |-> MD5(c), size |-> Len(c),
           blocks |-> <<[index |-> IndexStr(0), data |-> b64encode(c)]>>] :
            p \in BatchPaths, c \in BatchContents \ {<<>>}}
    \cup {[path |-> p, delta_type |-> k, full_hash |-> MD5(<<>>), size |-> 0] :
            p \in BatchPaths, k \in {"full", "delta", "none"}}

\* The batches of at most two items.
Batches(items) == {<<>>} \cup {<<x>> : x \in items} \cup {<<x, y>> : x \in items, y \in items}

Requests ==
    {[kind |-> "put", body |-> x] : x \in FileItems}
    \cup {[kind |-> "delta", body |-> x] : x \in DeltaItems}
    \cup {[kind |-> "sync", body |-> x] : x \in Batches(FileItems)}
    \cup {[kind |-> "delta_sync", body |-> x] : x \in Batches(DeltaItems)}

\* The server's files and fingerprint cache when it holds pre at "/w/f": as
\* write_file_content leaves them.
ServerWith(pre) ==
    IF pre = <<>> THEN [fs |-> EmptyDict, cache |-> EmptyDict]
    ELSE write_file_content(EmptyDict, EmptyDict,
                            [path |-> "/w/f", content |-> b64encode(pre[1])])

InitBatch ==
    /\ \E pre \in PreFiles, shape \in BusShapes, req \in Requests :
          /\ shape.broken \subseteq {shape.conns[i] : i \in DOMAIN shape.conns}
          /\ files = ServerWith(pre).fs
          /\ file_metadata_cache = ServerWith(pre).cache
          /\ active_connections = shape.conns
          /\ broken = shape.broken
          /\ accepted = {shape.conns[i] : i \in DOMAIN shape.conns}
          /\ delivered = [o \in {shape.conns[i] : i \in DOMAIN shape.conns} |-> <<>>]
          /\ pin = [kind |-> req.kind, body |-> req.body, pre |-> pre]
    /\ pout = NoPlanOut
    /\ local_cache = EmptyDict
    /\ remote_cache = EmptyDict
    /\ last = NoLast
    /\ active_commands = EmptyDict
    /\ run_task = EmptyDict
    /\ read_task = EmptyDict
    /\ process = EmptyDict
    /\ sending = EmptyDict
    /\ published = {}
    /\ watchers = EmptyDict
    /\ NoGit
    /\ use_delta_sync = TRUE
    /\ requests = <<>>
    /\ cache_file = <<>>
    /\ save_task = [state |-> "idle"]
    /\ writers = EmptyDict
    /\ ws_handler = [o \in accepted |-> "receiving"]

\* The state a request leaves, and its response in pout.
Served(r, response) ==
    /\ files' = r.fs
    /\ file_metadata_cache' = r.cache
    /\ delivered' = r.delivered
    /\ pout' = [done |-> TRUE, response |-> response]
    /\ UNCHANGED <<gitVars, otherVars, pin, local_cache, remote_cache, last, cmdVars,
                   accepted, sending, published, watchers>>

\* PUT /api/v1/files/content.
ServePut ==
    /\ pin.kind = "put" /\ ~pout.done
    /\ \E r \in {update_file_content(files, file_metadata_cache, Bus, pin.body)} :
          Served(r, [http |-> r.http])

\* PUT /api/v1/files/delta.
ServeDelta ==
    /\ pin.kind = "delta" /\ ~pout.done
    /\ \E r \in {update_file_delta(files, file_metadata_cache, Bus, pin.body)} :
          Served(r, [http |-> IF r.raised THEN 500 ELSE 200, data |-> r.result])

\* POST /api/v1/files/sync.
ServeSync ==
    /\ pin.kind = "sync" /\ ~pout.done
    /\ \E r \in {sync_files(files, file_metadata_cache, Bus, pin.body)} :
          Served(r, [http |-> 200, data |-> r.data])

\* POST /api/v1/files/delta_sync.
ServeDeltaSync ==
    /\ pin.kind = "delta_sync" /\ ~pout.done
    /\ \E r \in {delta_sync_files(files, file_metadata_cache, Bus, pin.body)} :
          Served(r, [http |-> 200, data |-> r.data])

NextBatch ==
    \/ ServePut
    \/ ServeDelta
    \/ ServeSync
    \/ ServeDeltaSync

BatchSpec == InitBatch /\ [][NextBatch]_vars

\* ================================================================ patch sync
\* The version-control tool is modelled by what the commands the code runs do
\* to a repository: a repository is its working tree, its index, and its
\* commits, oldest first; a tree maps the paths that exist to their content.
\* A text file is the sequence of its lines; the ignore file is left out.

\* Longest text file considered, in lines.
MaxFileLines == 6
\* Lines of context git diff puts around a change when, as here, no -U
\* option is given.
CONTEXT == 3
GitPaths == {"f", "n"}
\* The paths in the order git lists them.
GitPathOrder == <<"f", "n">>
\* The texts considered: n lines "a", the k-th replaced by "x" when k > 0.
GitTexts == {[i \in 1..n |-> IF i = k THEN "x" ELSE "a"] :
                n \in 0..MaxFileLines, k \in 0..MaxFileLines}
\* A file is binary when it holds a byte that does not decode as text, "ff".
IsBinaryContent(c) == \E i \in DOMAIN c : c[i] = "ff"
SYNC_MARKER == "SYNC-HTTP-MCP-POINT"
\* base64 of a patch text or a file body, which the model does not spell out
\* in bytes.
b64(x) == <<"b64", x>>
unb64(y) == y[2]

Without(d, k) == [x \in (DOMAIN d) \ {k} |-> d[x]]
HeadCommit(repo) == repo.commits[Len(repo.commits)]
HeadTree(repo) == HeadCommit(repo).tree
\* The paths on which two trees differ.
TreeDiff(t1, t2) ==
    {p \in GitPaths : \/ (p \in DOMAIN t1) # (p \in DOMAIN t2)
                      \/ p \in DOMAIN t1 /\ p \in DOMAIN t2 /\ t1[p] # t2[p]}
\* git status --porcelain: the paths it prints a line for, and those among
\* them it marks "??".
git_status(repo) ==
    [changed |-> TreeDiff(HeadTree(repo), repo.index) \cup TreeDiff(repo.index, repo.tree),
     untracked |-> (DOMAIN repo.tree) \ (DOMAIN repo.index)]
\* git add -A / git add --all / git add . at the top of the working tree.
git_add_all(repo) == [repo EXCEPT !.index = repo.tree]
\* git add <path> of an existing file.
git_add(repo, path) == [repo EXCEPT !.index = Put(@, path, repo.tree[path])]
\* GitPython's repo.index.commit: writes a commit of the index whether or not
\* it differs from HEAD. side tells the two ends' commits apart; a commit
\* message is the sequence of its parts.
index_commit(repo, side, message) ==
    [repo EXCEPT !.commits = Append(@, [id |-> <<side, Len(repo.commits) + 1>>,
                                        tree |-> repo.index, message |-> message])]
\* git commit -m: refuses, with "nothing to commit", when the index is the
\* tree of HEAD.
git_commit_refused(repo) == repo.index = HeadTree(repo)
git_commit(repo, side, message) ==
    IF git_commit_refused(repo) THEN repo ELSE index_commit(repo, side, message)
\* GitPython's repo.is_dirty() with its defaults: staged changes or changes
\* to tracked files, untracked files not counted.
is_dirty(repo) ==
    \/ TreeDiff(HeadTree(repo), repo.index) # {}
    \/ \E p \in DOMAIN repo.index : p \notin DOMAIN repo.tree \/ repo.tree[p] # repo.index[p]
\* git cat-file -e <commit>.
cat_file_e(repo, commit) == \E i \in DOMAIN repo.commits : repo.commits[i].id = commit


\* ------------------------------------------------------------------ patches
\* The hunk git diff writes for a file changed from old to new: the changed
\* lines with up to CONTEXT unchanged lines on either side. pre and post are
\* the hunk's lines before and after, oldpos its first line in old, trailing
\* its number of context lines after the change; shared and tail count the
\* leading lines the two texts share and the trailing ones beyond those.
Hunk(old, new) ==
    LET short == Min(Len(old), Len(new))
        shared == CHOOSE k \in 0..short :
                      /\ \A i \in 1..k : old[i] = new[i]
                      /\ k = short \/ old[k + 1] # new[k + 1]
        tail == CHOOSE k \in 0..(short - shared) :
                    /\ \A i \in 0..(k - 1) : old[Len(old) - i] = new[Len(new) - i]
                    /\ k = short - shared \/ old[Len(old) - k] # new[Len(new) - k]
        first == shared - Min(CONTEXT, shared) + 1
        trail == Min(CONTEXT, tail)
    IN [oldpos |-> IF Len(old) = 0 THEN 0 ELSE first,
        pre |-> SubSeq(old, first, Len(old) - tail + trail),
        post |-> SubSeq(new, first, Len(new) - tail + trail),
        trailing |-> trail]
\* The part of a patch about one path whose content differs between the tree
\* base and the tree now: a new file, a deleted file or a modified one.
FilePatch(path, base, now) ==
    IF path \notin DOMAIN base
    THEN [path |-> path, kind |-> "new", oldpos |-> 0, pre |-> <<>>,
          post |-> now[path], trailing |-> 0]
    ELSE IF path \notin DOMAIN now
    THEN [path |-> path, kind |-> "deleted", oldpos |-> IF Len(base[path]) = 0 THEN 0 ELSE 1,
          pre |-> base[path], post |-> <<>>, trailing |-> 0]
    ELSE [path |-> path, kind |-> "modified"] @@ Hunk(base[path], now[path])
\* git diff --binary <commit>: the patch from the tree of the commit to the
\* working tree, over the paths git tracks; files that are not in the index
\* are not part of it.
git_diff(base, repo) ==
    LET tracked == [q \in (DOMAIN repo.tree) \cap (DOMAIN repo.index) |-> repo.tree[q]]
        changed == SelectSeq(GitPathOrder, LAMBDA p : p \in TreeDiff(base, tracked))
    IN [i \in DOMAIN changed |-> FilePatch(changed[i], base, tracked)]

\* The places (lines to skip) at which the hunk of a file patch fits a text:
\* its lines before must be there, at the top of the text when the hunk
\* starts at the first line, at the end of it when the hunk has no trailing
\* context.
Fits(img, fp) ==
    {i \in 0..Len(img) :
        /\ i + Len(fp.pre) <= Len(img)
        /\ SubSeq(img, i + 1, i + Len(fp.pre)) = fp.pre
        /\ fp.oldpos <= 1 => i = 0
        /\ fp.trailing = 0 => i + Len(fp.pre) = Len(img)}
\* git apply looks for the hunk at its own line first, then one line further
\* down, one further up, and so on, and takes the first place that fits.
find_pos(img, fp) ==
    LET Away(i) == IF i >= fp.oldpos - 1 THEN 2 * (i - (fp.oldpos - 1)) - 1
                   ELSE 2 * ((fp.oldpos - 1) - i)
    IN CHOOSE i \in Fits(img, fp) : \A j \in Fits(img, fp) : Away(i) <= Away(j)
\* What git apply says about one file patch on a working tree: "ok", or the
\* error it prints.
apply_error(tree, fp) ==
    IF fp.kind = "new"
    THEN IF fp.path \in DOMAIN tree THEN "already exists in working directory" ELSE "ok"
    ELSE IF fp.path \notin DOMAIN tree THEN "No such file or directory"
    ELSE IF Fits(tree[fp.path], fp) = {} THEN "patch does not apply" ELSE "ok"
\* The errors of git apply --check <patch>; an empty patch is refused.
git_apply_errors(tree, patch) ==
    IF Len(patch) = 0 THEN {"No valid patches in input"}
    ELSE {apply_error(tree, patch[i]) : i \in DOMAIN patch} \ {"ok"}
\* The working tree after git apply <patch>, for a patch without errors; a
\* patch has one file patch for a path.
git_apply(tree, patch) ==
    LET Of(p) == patch[CHOOSE i \in DOMAIN patch : patch[i].path = p]
        touched == {patch[i].path : i \in DOMAIN patch}
        deleted == {p \in touched : Of(p).kind = "deleted"}
        Patched(p) == LET img == tree[p]
                          at == find_pos(img, Of(p))
                      IN SubSeq(img, 1, at) \o Of(p).post
                            \o SubSeq(img, at + Len(Of(p).pre) + 1, Len(img))
    IN [p \in ((DOMAIN tree) \cup touched) \ deleted |->
           IF p \notin touched THEN tree[p]
           ELSE IF Of(p).kind = "new" THEN Of(p).post ELSE Patched(p)]


\* The header lines of a patch text, in order: for every file patch its
\* "diff --git a/<path> b/<path>" line, then its "--- " and "+++ " lines,
\* which name /dev/null for the side on which the file does not exist and
\* which git leaves out for an empty or binary file. The lines of the hunks
\* start with a blank, "+" or "-" followed by a line of the file and are not
\* headers.
RECURSIVE PatchLines(_, _)
PatchLines(patch, i) ==
    IF i > Len(patch) THEN <<>>
    ELSE LET fp == patch[i]
         IN <<[head |-> "diff --git a/", path |-> fp.path]>>
            \o (IF (Len(fp.pre) = 0 /\ Len(fp.post) = 0) \/ IsBinaryContent(fp.post)
                THEN <<>>
                ELSE <<[head |-> IF fp.kind = "new" THEN "--- /" ELSE "--- a/",
                        path |-> IF fp.kind = "new" THEN "dev/null" ELSE fp.path],
                       [head |-> IF fp.kind = "deleted" THEN "+++ /" ELSE "+++ b/",
                        path |-> IF fp.kind = "deleted" THEN "dev/null" ELSE fp.path]>>)
            \o PatchLines(patch, i + 1)
\* extract_files_from_patch: the paths of the "--- a/", "+++ b/" and
\* "diff --git a/" lines, each kept the first time it is seen.
RECURSIVE extract_files_from(_, _, _)
extract_files_from(lines, i, found) ==
    IF i > Len(lines) THEN found
    ELSE LET line == lines[i]
             seen == \E k \in DOMAIN found : found[k] = line.path
         IN extract_files_from(lines, i + 1,
                IF line.head \in {"--- a/", "+++ b/", "diff --git a/"} /\ ~seen
                THEN Append(found, line.path) ELSE found)
extract_files_from_patch(patch) == extract_files_from(PatchLines(patch, 1), 1, <<>>)

\* ------------------------------------------------------ server: patch apply
\* Key of the server's repository in conflict_files.
RepoPath == "/w"
\* No base commit given (None).
NoCommit == <<>>
\* apply_patch(repo, patch_content) of the server: git apply --check, then
\* git add "."; the dictionary it returns has the key "success". On a
\* conflict it lists a GitConflictFile for each affected path that exists.
apply_patch(repo, patch) ==
    LET errors == git_apply_errors(repo.tree, patch)
        existing == SelectSeq(extract_files_from_patch(patch),
                              LAMBDA p : p \in DOMAIN repo.tree)
    IN IF errors = {}
       THEN [repo |-> git_add_all(repo), result |-> [success |-> TRUE]]
       ELSE IF "patch does not apply" \in errors
       THEN [repo |-> repo,
             result |-> [success |-> FALSE, message |-> "conflict",
                         conflict_files |->
                             [i \in DOMAIN existing |->
                                 [path |-> existing[i],
                                  remote_content |-> b64(repo.tree[existing[i]])]]]]
       ELSE [repo |-> repo, result |-> [success |-> FALSE, message |-> "git apply failed"]]
\* The working tree after the loop over binary_files: an entry without a path
\* or with an empty content is skipped, the others are written.
RECURSIVE write_binary_files(_, _, _)
write_binary_files(tree, binary_files, i) ==
    IF i > Len(binary_files) THEN tree
    ELSE LET bf == binary_files[i]
         IN write_binary_files(IF unb64(bf.content) = <<>> THEN tree
                               ELSE Put(tree, bf.path, unb64(bf.content)),
                               binary_files, i + 1)
GitError(message) == [status |-> "error", message |-> message]
\* The lines of apply_git_patch after the call of apply_patch: they read
\* result["status"], and a dictionary without that key raises KeyError, which
\* the outer handler turns into an error response.
after_apply_patch(r, patch) ==
    IF "status" \notin DOMAIN r.result
    THEN [repo |-> r.repo, response |-> GitError("KeyError: 'status'")]
    ELSE IF r.result.status = "success"
    THEN LET committed == index_commit(git_add_all(r.repo), "server", <<"Apply sync patch">>)
         IN [repo |-> committed,
             response |-> [status |-> "success", message |-> "patch applied",
                           commit |-> HeadCommit(committed).id,
                           affected_files |-> extract_files_from_patch(patch)]]
    ELSE [repo |-> r.repo, response |-> r.result]
\* apply_git_patch on an existing repository, with GitPython installed.
apply_git_patch(repo, request) ==
    LET patch == unb64(request.patch_content)
        written == [repo EXCEPT !.tree = write_binary_files(@, request.binary_files, 1)]
        staged == git_add_all(written)
    IN IF request.base_commit # NoCommit /\ ~cat_file_e(written, request.base_commit)
       THEN [repo |-> written, response |-> GitError("base commit does not exist")]
       ELSE IF request.base_commit # NoCommit /\ is_dirty(written)
                 /\ git_status(written).changed # {}
       THEN IF git_commit_refused(staged)
            THEN [repo |-> staged, response |-> GitError("base commit does not exist")]
            ELSE after_apply_patch(
                     apply_patch(git_commit(staged, "server",
                                            <<"Auto-commit before applying patch">>), patch),
                     patch)
       ELSE after_apply_patch(apply_patch(written, patch), patch)

\* --------------------------------------------------- server: conflict table
HasConflicts(cf) == RepoPath \in DOMAIN cf /\ Len(cf[RepoPath]) > 0
\* The index of the first recorded conflict, from position i on, that the
\* resolution resolves, or 0: a "local" resolution resolves a conflict of its
\* path, a "remote" one too when the conflict holds saved content, a "merged"
\* one when the resolution carries content.
RECURSIVE resolved_index(_, _, _)
resolved_index(cfs, resolution, i) ==
    IF i > Len(cfs) THEN 0
    ELSE IF /\ cfs[i].path = resolution.path
            /\ \/ resolution.resolution = "local"
               \/ resolution.resolution = "remote" /\ unb64(cfs[i].remote_content) # <<>>
               \/ resolution.resolution = "merged" /\ unb64(resolution.content) # <<>>
         THEN i
         ELSE resolved_index(cfs, resolution, i + 1)
\* The first loop of resolve_conflicts: the working tree and the conflict
\* list after the resolutions from position i on.
RECURSIVE resolve_loop(_, _, _, _)
resolve_loop(tree, cfs, resolutions, i) ==
    IF i > Len(resolutions) THEN [tree |-> tree, cfs |-> cfs]
    ELSE LET resolution == resolutions[i]
             k == resolved_index(cfs, resolution, 1)
         IN IF k = 0 THEN resolve_loop(tree, cfs, resolutions, i + 1)
            ELSE resolve_loop(
                     IF resolution.resolution = "remote"
                     THEN Put(tree, resolution.path, unb64(cfs[k].remote_content))
                     ELSE IF resolution.resolution = "merged"
                     THEN Put(tree, resolution.path, unb64(resolution.content))
                     ELSE tree,
                     SubSeq(cfs, 1, k - 1) \o SubSeq(cfs, k + 1, Len(cfs)),
                     resolutions, i + 1)
\* The second loop: git add of the path of every resolution that exists.
RECURSIVE add_resolved(_, _, _)
add_resolved(repo, resolutions, i) ==
    IF i > Len(resolutions) THEN repo
    ELSE add_resolved(IF resolutions[i].path \in DOMAIN repo.tree
                      THEN git_add(repo, resolutions[i].path) ELSE repo,
                      resolutions, i + 1)
resolve_conflicts(repo, cf, resolutions) ==
    IF ~HasConflicts(cf)
    THEN [repo |-> repo, cf |-> cf, response |-> GitError("no conflicts to resolve")]
    ELSE LET looped == resolve_loop(repo.tree, cf[RepoPath], resolutions, 1)
             added == add_resolved([repo EXCEPT !.tree = looped.tree], resolutions, 1)
             left == [cf EXCEPT ![RepoPath] = looped.cfs]
         IN IF Len(looped.cfs) = 0
            THEN LET committed == index_commit(added, "server", <<"resolve sync conflicts">>)
                 IN [repo |-> committed, cf |-> left,
                     response |-> [status |-> "success",
                                   new_commit |-> HeadCommit(committed).id]]
            ELSE [repo |-> added, cf |-> left,
                  response |-> [status |-> "partial",
                                remaining_conflicts |-> Len(looped.cfs)]]
\* get_conflicts: with no recorded conflict an empty list; otherwise it reads
\* the attribute `content` of a GitConflictFile, which has none, for the
\* first recorded path that exists, and the handler reports the error.
get_conflicts(repo, cf) ==
    IF ~HasConflicts(cf) THEN [status |-> "success", conflicts |-> <<>>]
    ELSE IF \E i \in DOMAIN cf[RepoPath] : cf[RepoPath][i].path \in DOMAIN repo.tree
    THEN GitError("AttributeError: content")
    ELSE [status |-> "success", conflicts |-> <<>>]


\* ------------------------------------------------------------ GitSyncManager
\* create_sync_point: git add -A and a commit whose message ends with the
\* sync marker; with nothing to commit the current HEAD is the sync point.
create_sync_point(repo, side, message) ==
    LET committed == git_commit(git_add_all(repo), side, <<message, SYNC_MARKER>>)
    IN [repo |-> committed, commit |-> HeadCommit(committed).id]
HasMarker(message) == \E i \in DOMAIN message : message[i] = SYNC_MARKER
\* get_last_sync_point: git log --grep <marker> -n 1, the newest commit whose
\* message holds the marker, or else the root commit.
get_last_sync_point(repo) ==
    LET marked == {i \in DOMAIN repo.commits : HasMarker(repo.commits[i].message)}
    IN IF marked # {}
       THEN repo.commits[CHOOSE i \in marked : \A j \in marked : j <= i]
       ELSE repo.commits[1]
\* _get_binary_files_content: of the untracked files, those that fail to read
\* as text, with their content.
RECURSIVE get_binary_files_content(_, _, _)
get_binary_files_content(tree, untracked_files, i) ==
    IF i > Len(untracked_files) THEN <<>>
    ELSE (IF untracked_files[i] \in DOMAIN tree /\ IsBinaryContent(tree[untracked_files[i]])
          THEN <<[path |-> untracked_files[i], content |-> b64(tree[untracked_files[i]])]>>
          ELSE <<>>) \o get_binary_files_content(tree, untracked_files, i + 1)
\* generate_patch with no base commit given.
generate_patch(repo) ==
    LET base == get_last_sync_point(repo)
        status == git_status(repo)
        untracked_files == SelectSeq(GitPathOrder, LAMBDA p : p \in status.untracked)
        patch == git_diff(base.tree, repo)
    IN IF status.changed = {}
       THEN [status |-> "no_changes", base_commit |-> base.id]
       ELSE [status |-> "success", base_commit |-> base.id,
             patch_content |-> b64(patch),
             binary_files |-> get_binary_files_content(repo.tree, untracked_files, 1),
             untracked_files |-> untracked_files,
             files_changed |-> Len(patch) + Len(untracked_files)]
\* The loop of GitSyncManager.apply_patch over binary_files: every entry is
\* written.
RECURSIVE manager_write_binary(_, _, _)
manager_write_binary(tree, binary_files, i) ==
    IF i > Len(binary_files) THEN tree
    ELSE manager_write_binary(Put(tree, binary_files[i].path, unb64(binary_files[i].content)),
                              binary_files, i + 1)
\* GitSyncManager.apply_patch on the repository of the end that runs it.
manager_apply_patch(repo, side, patch_content, binary_files) ==
    LET patch == unb64(patch_content)
    IN IF git_status(repo).changed # {}
       THEN [repo |-> repo, result |-> GitError("uncommitted local changes")]
       ELSE IF git_apply_errors(repo.tree, patch) # {}
       THEN [repo |-> repo, result |-> [status |-> "conflict", message |-> "patch does not apply"]]
       ELSE LET applied == [repo EXCEPT !.tree = manager_write_binary(
                                                    git_apply(@, patch), binary_files, 1)]
                point == create_sync_point(applied, side, "Applied remote changes")
            IN [repo |-> point.repo,
                result |-> [status |-> "success", new_commit |-> point.commit]]
\* GitSyncManager.get_sync_status.
manager_get_sync_status(repo) ==
    LET last_sync == get_last_sync_point(repo)
        status == git_status(repo)
    IN [status |-> "ready", last_sync_commit |-> last_sync.id,
        pending_changes |-> status.changed # {},
        changed_files |-> IF status.changed # {}
                          THEN {git_diff(last_sync.tree, repo)[i].path :
                                    i \in DOMAIN git_diff(last_sync.tree, repo)}
                          ELSE {},
        untracked_files |-> status.untracked]

\* ------------------------------------------------------------- GitSyncClient
\* GitSyncClient.sync. remote_server.py has no route for
\* POST /api/v1/sync/patch; the request is handed to apply_git_patch, the
\* function that serves it. The outcome holds what the call returned, the
\* request it sent if any, and both repositories afterwards.
client_sync(client, server) ==
    LET status == manager_get_sync_status(client)
        patch_info == generate_patch(client)
        payload == [base_commit |-> patch_info.base_commit,
                    patch_content |-> patch_info.patch_content,
                    binary_files |-> patch_info.binary_files]
        served == apply_git_patch(server, payload)
    IN IF ~status.pending_changes \/ patch_info.status = "no_changes"
       THEN [returned |-> TRUE, sent |-> <<>>, client |-> client, server |-> server]
       ELSE IF served.response.status = "success"
       THEN [returned |-> TRUE, sent |-> <<payload>>, server |-> served.repo,
             client |-> IF "new_commit" \in DOMAIN served.response
                           /\ served.response.new_commit # patch_info.base_commit
                        THEN create_sync_point(client, "client", "Update from remote sync").repo
                        ELSE client]
       ELSE [returned |-> FALSE, sent |-> <<payload>>, server |-> served.repo,
             client |-> client]


\* ------------------------------------------------------- patch-sync scenarios
\* The file both ends hold when they are initialised: none, or some lines "a".
BaseTrees ==
    {EmptyDict} \cup {[p \in {"f"} |-> [i \in 1..k |-> "a"]] : k \in 1..(MaxFileLines - 1)}
\* init_repo on the client's workspace: the initial commit holds the ignore
\* file only; create_sync_point then commits the files found there, if any.
init_repo(tree) ==
    create_sync_point([tree |-> tree, index |-> EmptyDict,
                       commits |-> <<[id |-> <<"client", 1>>, tree |-> EmptyDict,
                                      message |-> <<"Initial commit by Sync-HTTP-MCP">>]>>],
                      "client", "Initial sync point").repo
\* init_git_repo on the server's directory: git add --all and one commit.
init_git_repo(tree) ==
    [tree |-> tree, index |-> tree,
     commits |-> <<[id |-> <<"server", 1>>, tree |-> tree,
                    message |-> <<"Initial commit by Sync-HTTP-MCP">>]>>]
\* Both ends initialised over the same files, nothing synchronised yet.
InitGit ==
    /\ \E base \in BaseTrees :
          /\ server_repo = init_git_repo(base)
          /\ client_repo = init_repo(base)
    /\ conflict_files = EmptyDict
    /\ git_run = <<>>
    /\ files = EmptyDict
    /\ file_metadata_cache = EmptyDict
    /\ local_cache = EmptyDict
    /\ remote_cache = EmptyDict
    /\ last = NoLast
    /\ pin = NoPlanRun
    /\ pout = NoPlanOut
    /\ NoCommands
    /\ NoOther

\* The user edits or deletes a file of the workspace that is as committed,
\* or creates the file n, before any call.
ClientEdit(p, c) ==
    /\ git_run = <<>>
    /\ p \notin TreeDiff(client_repo.tree, client_repo.index)
    /\ p = "f" => p \in DOMAIN client_repo.tree
    /\ p = "n" => c \in {<<"a">>, <<"ff">>}
    /\ client_repo' = [client_repo EXCEPT !.tree = Put(@, p, c)]
    /\ UNCHANGED <<server_repo, conflict_files, git_run, syncVars, planVars, cmdVars, busVars, otherVars>>
ClientDelete(p) ==
    /\ git_run = <<>>
    /\ p \in DOMAIN client_repo.tree
    /\ p \notin TreeDiff(client_repo.tree, client_repo.index)
    /\ client_repo' = [client_repo EXCEPT !.tree = Without(@, p)]
    /\ UNCHANGED <<server_repo, conflict_files, git_run, syncVars, planVars, cmdVars, busVars, otherVars>>
\* The user runs git add on a new file.
ClientStage(p) ==
    /\ git_run = <<>>
    /\ p \in (DOMAIN client_repo.tree) \ (DOMAIN client_repo.index)
    /\ client_repo' = git_add(client_repo, p)
    /\ UNCHANGED <<server_repo, conflict_files, git_run, syncVars, planVars, cmdVars, busVars, otherVars>>
\* A file of the server's tree is written through the file service, outside
\* patch sync.
ServerWrite(p, c) ==
    /\ git_run = <<>>
    /\ server_repo.tree = HeadTree(server_repo)
    /\ p \in DOMAIN server_repo.tree
    /\ server_repo' = [server_repo EXCEPT !.tree = Put(@, p, c)]
    /\ UNCHANGED <<client_repo, conflict_files, git_run, syncVars, planVars, cmdVars, busVars, otherVars>>

\* The bundle is applied at the receiving end by GitSyncManager.apply_patch.
ManagerApply ==
    /\ Len(git_run) < 2
    /\ \A i \in DOMAIN git_run : git_run[i].op = "manager_apply"
    /\ \E bundle \in {generate_patch(client_repo)} :
          /\ bundle.status = "success"
          /\ \E r \in {manager_apply_patch(server_repo, "server", bundle.patch_content,
                                           bundle.binary_files)} :
                /\ server_repo' = r.repo
                /\ git_run' = Append(git_run, [op |-> "manager_apply", bundle |-> bundle,
                                               before |-> server_repo, result |-> r.result])
    /\ UNCHANGED <<client_repo, conflict_files, syncVars, planVars, cmdVars, busVars, otherVars>>
\* The bundle is sent to the server, which runs apply_git_patch; the request
\* names as its base that of the bundle, the server's HEAD, or none.
ServerApply ==
    /\ git_run = <<>>
    /\ \E bundle \in {generate_patch(client_repo)} :
          /\ bundle.status = "success"
          /\ \E base \in {bundle.base_commit, HeadCommit(server_repo).id, NoCommit} :
             \E request \in {[base_commit |-> base, patch_content |-> bundle.patch_content,
                              binary_files |-> bundle.binary_files]} :
             \E r \in {apply_git_patch(server_repo, request)} :
                /\ server_repo' = r.repo
                /\ git_run' = Append(git_run, [op |-> "apply_git_patch", request |-> request,
                                               before |-> server_repo,
                                               result |-> r.response])
    /\ UNCHANGED <<client_repo, conflict_files, syncVars, planVars, cmdVars, busVars, otherVars>>
\* The conflicts query, after a patch request.
GetConflicts ==
    /\ Len(git_run) = 1
    /\ git_run[1].op = "apply_git_patch"
    /\ git_run' = Append(git_run, [op |-> "get_conflicts", before |-> server_repo,
                                   result |-> get_conflicts(server_repo, conflict_files)])
    /\ UNCHANGED <<server_repo, client_repo, conflict_files, syncVars, planVars, cmdVars, busVars, otherVars>>
\* The resolutions a client sends: one choice for the paths of a set.
Resolutions(paths, choice) ==
    LET listed == SelectSeq(GitPathOrder, LAMBDA p : p \in paths)
    IN [i \in DOMAIN listed |->
           [path |-> listed[i], resolution |-> choice,
            content |-> IF choice = "merged" THEN b64(<<"x", "a">>) ELSE b64(<<>>)]]
\* A resolve request, after a patch request.
Resolve(paths, choice) ==
    /\ Len(git_run) = 1
    /\ git_run[1].op = "apply_git_patch"
    /\ paths # {}
    /\ \E r \in {resolve_conflicts(server_repo, conflict_files, Resolutions(paths, choice))} :
          /\ server_repo' = r.repo
          /\ conflict_files' = r.cf
          /\ git_run' = Append(git_run, [op |-> "resolve_conflicts", before |-> server_repo,
                                         request |-> Resolutions(paths, choice),
                                         result |-> r.response])
    /\ UNCHANGED <<client_repo, syncVars, planVars, cmdVars, busVars, otherVars>>
\* The client runs its sync command.
ClientSync ==
    /\ Len(git_run) < 2
    /\ \A i \in DOMAIN git_run : git_run[i].op = "sync"
    /\ \E r \in {client_sync(client_repo, server_repo)} :
          /\ client_repo' = r.client
          /\ server_repo' = r.server
          /\ git_run' = Append(git_run, [op |-> "sync", before |-> server_repo,
                                         pending |-> manager_get_sync_status(client_repo).pending_changes,
                                         sent |-> r.sent, result |-> r.returned])
    /\ UNCHANGED <<conflict_files, syncVars, planVars, cmdVars, busVars, otherVars>>

NextGit ==
    \/ \E p \in GitPaths, c \in GitTexts \cup {<<"ff">>} : ClientEdit(p, c)
    \/ \E p \in GitPaths : ClientDelete(p)
    \/ \E p \in GitPaths : ClientStage(p)
    \/ \E p \in GitPaths, c \in {<<"x">>} : ServerWrite(p, c)
    \/ ManagerApply
    \/ ServerApply
    \/ GetConflicts
    \/ \E paths \in SUBSET GitPaths, choice \in {"local", "remote", "merged"} :
          Resolve(paths, choice)
    \/ ClientSync

GitSpec == InitGit /\ [][NextGit]_vars

\* ============================================================ client session
\* A session of SimplifiedMCPClient against a server that may be older than
\* remote_server.py: pin holds what its root response advertises and whether
\* it routes the delta endpoints (a server without them answers 404). The
\* whole-file endpoints are those of remote_server.py.
Servers ==
    {[kind |-> "session", delta_sync_supported |-> a, delta_routes |-> r,
      git_sync_supported |-> g] : a \in BOOLEAN, r \in BOOLEAN, g \in BOOLEAN}

\* Longest request log of a session.
MaxRequests == 3

\* The body of a whole-file request (client.py:239-246, 341-354).
WholeFile(path, content) ==
    [path |-> path, content |-> b64encode(content), checksum |-> MD5(content)]

\* A request as the log keeps it: its endpoint, the status of the response,
\* whether its body carried all of the content being written and whether the
\* server's file holds that content after it.
Request(endpoint, http, complete, stored) ==
    [endpoint |-> endpoint, http |-> http, complete |-> complete, stored |-> stored]

\* connect that leaves use_delta_sync as it is.
connect_keeps_delta(server, uds) ==
    [use_delta_sync |-> uds, requests |-> <<Request("GET /", 200, FALSE, FALSE)>>]

\* SimplifiedMCPClient.connect on a server that answers: a client with
\* use_delta_sync set clears it when the root response does not advertise
\* delta_sync_supported.
connect(server, uds) ==
    [use_delta_sync |-> uds /\ server.delta_sync_supported,
     requests |-> <<Request("GET /", 200, FALSE, FALSE)>>]

\* SimplifiedMCPClient.update_file_content: without use_delta_sync the
\* content is PUT whole to /api/v1/files/content; with it the plan is PUT to
\* /api/v1/files/delta, and a 404 clears use_delta_sync and sends the content
\* whole. An HTTP 200 makes the method return True.
session_update_file_content(server, uds, fs, cache, bus, lc, rc, remote_path, content) ==
    LET Delta(r) ==
            [fs |-> r.fs, cache |-> r.cache, delivered |-> r.delivered,
             local_cache |-> r.local_cache, remote_cache |-> r.remote_cache,
             use_delta_sync |-> TRUE, returned |-> r.returned,
             requests |-> <<Request("PUT /api/v1/files/delta",
                                    IF r.returned THEN 200 ELSE 500,
                                    "content" \in DOMAIN r.payload
                                       /\ b64decode(r.payload.content) = content,
                                    remote_path \in DOMAIN r.fs
                                       /\ r.fs[remote_path] = content)>>]
        Whole(srv) ==
            [fs |-> srv.fs, cache |-> srv.cache, delivered |-> srv.delivered,
             local_cache |-> IF uds THEN Put(lc, TmpPath, from_file(TmpPath, content)) ELSE lc,
             remote_cache |-> rc, use_delta_sync |-> FALSE,
             returned |-> srv.http = 200,
             requests |->
                 (IF uds THEN <<Request("PUT /api/v1/files/delta", 404, FALSE, FALSE)>>
                  ELSE <<>>)
                 \o <<Request("PUT /api/v1/files/content", srv.http, TRUE,
                              remote_path \in DOMAIN srv.fs /\ srv.fs[remote_path] = content)>>]
    IN IF uds /\ server.delta_routes
       THEN CHOOSE x \in {Delta(r) : r \in {client_update_file_content(
                              fs, cache, bus, lc, rc, remote_path, content)}} : TRUE
       ELSE CHOOSE x \in {Whole(srv) : srv \in {update_file_content(
                              fs, cache, bus, WholeFile(remote_path, content))}} : TRUE

\* Whether the server's files hold the content of every file change.
Stored(fs, file_changes) ==
    \A i \in DOMAIN file_changes :
        /\ file_changes[i].path \in DOMAIN fs
        /\ fs[file_changes[i].path] = file_changes[i].content

\* SimplifiedMCPClient.sync_files: without use_delta_sync every change is
\* POSTed whole to /api/v1/files/sync; with it the plans that are not `none`
\* are POSTed to /api/v1/files/delta_sync, and a 404 clears use_delta_sync and
\* sends every change whole.
session_sync_files(server, uds, fs, cache, bus, lc, rc, file_changes) ==
    LET Planned == sync_plan_loop([local_cache |-> lc, remote_cache |-> rc,
                                   plans |-> <<>>, files |-> <<>>], file_changes)
        regular == [i \in DOMAIN file_changes |->
                       ("delta_type" :> "full")
                          @@ WholeFile(file_changes[i].path, file_changes[i].content)]
        Delta(r) ==
            [fs |-> r.fs, cache |-> r.cache, delivered |-> r.delivered,
             local_cache |-> r.local_cache, remote_cache |-> r.remote_cache,
             use_delta_sync |-> TRUE, data |-> r.data,
             requests |-> IF r.files = <<>> THEN <<>>
                          ELSE <<Request("POST /api/v1/files/delta_sync", 200,
                                         /\ Len(r.files) = Len(file_changes)
                                         /\ \A i \in DOMAIN r.files :
                                               /\ "content" \in DOMAIN r.files[i]
                                               /\ b64decode(r.files[i].content)
                                                     = file_changes[i].content,
                                         Stored(r.fs, file_changes))>>]
        Whole(srv, planned) ==
            [fs |-> srv.fs, cache |-> srv.cache, delivered |-> srv.delivered,
             local_cache |-> IF uds THEN planned.local_cache ELSE lc,
             remote_cache |-> rc, use_delta_sync |-> FALSE, data |-> srv.data,
             requests |->
                 (IF uds THEN <<Request("POST /api/v1/files/delta_sync", 404, FALSE, FALSE)>>
                  ELSE <<>>)
                 \o <<Request("POST /api/v1/files/sync", 200, TRUE,
                              Stored(srv.fs, file_changes))>>]
    IN IF uds /\ (server.delta_routes \/ Planned.files = <<>>)
       THEN CHOOSE x \in {Delta(r) : r \in {client_sync_files(
                              fs, cache, bus, lc, rc, file_changes)}} : TRUE
       ELSE CHOOSE x \in {Whole(srv, planned) :
                              srv \in {sync_files(fs, cache, bus, regular)},
                              planned \in {Planned}} : TRUE

\* main in its default mode, asked to sync a workspace that has one changed
\* file: GitSyncClient.sync POSTs the patch to /api/v1/sync/patch, which no
\* route of the server answers, and reports failure; main then constructs a
\* SimplifiedMCPClient with use_delta_sync set, connects it and syncs the
\* workspace with sync_local_to_remote, that is with sync_files.
main_sync(server, fs, cache, bus, lc, rc, file_changes) ==
    LET patch == Request("POST /api/v1/sync/patch", 404, FALSE, FALSE)
        c == connect(server, TRUE)
        After(s) == [s EXCEPT !.requests = <<patch>> \o c.requests \o s.requests]
    IN CHOOSE x \in {After(s) : s \in {session_sync_files(
                         server, c.use_delta_sync, fs, cache, bus, lc, rc,
                         file_changes)}} : TRUE

InitSession ==
    /\ files = EmptyDict
    /\ file_metadata_cache = EmptyDict
    /\ local_cache = EmptyDict
    /\ remote_cache = EmptyDict
    /\ last = NoLast
    /\ pin \in Servers
    /\ pout = NoPlanOut
    /\ NoCommands
    /\ NoGit
    /\ use_delta_sync \in BOOLEAN
    /\ requests = <<>>
    /\ cache_file = <<>>
    /\ save_task = [state |-> "idle"]
    /\ writers = EmptyDict
    /\ ws_handler = EmptyDict

\* What a call of the client leaves: the server's files and fingerprints,
\* the client's views and flag, and the requests it sent.
SessionAfter(r) ==
    /\ Len(requests) + Len(r.requests) <= MaxRequests
    /\ files' = r.fs
    /\ file_metadata_cache' = r.cache
    /\ delivered' = r.delivered
    /\ local_cache' = r.local_cache
    /\ remote_cache' = r.remote_cache
    /\ use_delta_sync' = r.use_delta_sync
    /\ requests' = requests \o r.requests
    /\ UNCHANGED <<gitVars, planVars, cmdVars, last, accepted, sending, published, watchers,
                   cache_file, save_task, writers, ws_handler>>

SessionConnect ==
    \E r \in {connect(pin, use_delta_sync)} :
       /\ Len(requests) < MaxRequests
       /\ use_delta_sync' = r.use_delta_sync
       /\ requests' = requests \o r.requests
       /\ UNCHANGED <<gitVars, planVars, cmdVars, busVars, syncVars,
                      cache_file, save_task, writers, ws_handler>>

SessionUpdate(p, c) ==
    \E r \in {session_update_file_content(pin, use_delta_sync, files, file_metadata_cache,
                                          Bus, local_cache, remote_cache, p, c)} :
       SessionAfter(r)

SessionSync(p, c) ==
    \E r \in {session_sync_files(pin, use_delta_sync, files, file_metadata_cache, Bus,
                                 local_cache, remote_cache,
                                 <<[path |-> p, content |-> c]>>)} :
       SessionAfter(r)

\* main is a process of its own: it starts the log.
MainSync(p, c) ==
    /\ requests = <<>>
    /\ \E r \in {main_sync(pin, files, file_metadata_cache, Bus, local_cache,
                           remote_cache, <<[path |-> p, content |-> c]>>)} :
          SessionAfter(r)

\* The contents a session writes: those of at most two blocks.
SessionContents == {c \in SyncContents : Len(c) <= BLOCK_SIZE + 1}

NextSession ==
    \/ SessionConnect
    \/ \E p \in Paths, c \in SessionContents : SessionUpdate(p, c)
    \/ \E p \in Paths, c \in SessionContents : SessionSync(p, c)
    \/ \E p \in Paths, c \in SessionContents : MainSync(p, c)

SessionSpec == InitSession /\ [][NextSession]_vars

\* =============================================================== cache flush
\* The text json.dump writes for the two views, as the sequence of the
\* pieces it hands to the file: the opening brace, one piece for each cached
\* fingerprint, the closing brace.
Serialise(lc, rc) ==
    LET Pieces(view, d) ==
            LET Rest[ks \in SUBSET DOMAIN d] ==
                    IF ks = {} THEN <<>>
                    ELSE LET k == CHOOSE x \in ks : TRUE
                         IN <<[view |-> view, path |-> k, metadata |-> d[k]]>>
                            \o Rest[ks \ {k}]
            IN Rest[DOMAIN d]
    IN <<"{">> \o Pieces("local", lc) \o Pieces("remote", rc) \o <<"}">>

\* A client whose views hold what one update left in them, or nothing, and
\* whose cache file holds what an earlier flush of such views wrote, or does
\* not exist (the empty text).
InitFlush ==
    /\ \E new \in {[local_cache |-> EmptyDict, remote_cache |-> EmptyDict]}
                  \cup {client_update_file_content(EmptyDict, EmptyDict, NoBus, EmptyDict,
                                                   EmptyDict, RunPath, c) :
                           c \in SyncContents} :
          /\ local_cache = new.local_cache
          /\ remote_cache = new.remote_cache
    /\ \E old \in {client_update_file_content(EmptyDict, EmptyDict, NoBus, EmptyDict,
                                              EmptyDict, RunPath, c) : c \in SyncContents} :
          cache_file \in {<<>>, Serialise(old.local_cache, old.remote_cache)}
    /\ save_task = [state |-> "idle"]
    /\ files = EmptyDict
    /\ file_metadata_cache = EmptyDict
    /\ last = NoLast
    /\ pin = NoPlanRun
    /\ pout = NoPlanOut
    /\ NoCommands
    /\ NoGit
    /\ use_delta_sync = TRUE
    /\ requests = <<>>
    /\ writers = EmptyDict
    /\ ws_handler = EmptyDict

\* save_cache opens the cache file for writing, which empties it.
SaveOpen ==
    /\ save_task.state = "idle"
    /\ cache_file' = <<>>
    /\ save_task' = [state |-> "writing", previous |-> cache_file,
                     todo |-> Serialise(local_cache, remote_cache)]
    /\ UNCHANGED <<gitVars, syncVars, planVars, cmdVars, busVars,
                   use_delta_sync, requests, writers, ws_handler>>

\* json.dump hands the next piece to the file.
SaveWrite ==
    /\ save_task.state = "writing"
    /\ save_task.todo # <<>>
    /\ cache_file' = Append(cache_file, Head(save_task.todo))
    /\ save_task' = [save_task EXCEPT !.todo = Tail(@)]
    /\ UNCHANGED <<gitVars, syncVars, planVars, cmdVars, busVars,
                   use_delta_sync, requests, writers, ws_handler>>

\* The file is closed and save_cache returns True.
SaveClose ==
    /\ save_task.state = "writing"
    /\ save_task.todo = <<>>
    /\ save_task' = [save_task EXCEPT !.state = "saved"]
    /\ UNCHANGED <<gitVars, syncVars, planVars, cmdVars, busVars, cache_file,
                   use_delta_sync, requests, writers, ws_handler>>

\* The flush ends midway: a write raises and save_cache returns False
\* ("failed"), or the process dies ("crashed").
SaveStops(how) ==
    /\ save_task.state = "writing"
    /\ save_task.todo # <<>>
    /\ save_task' = [save_task EXCEPT !.state = how]
    /\ UNCHANGED <<gitVars, syncVars, planVars, cmdVars, busVars, cache_file,
                   use_delta_sync, requests, writers, ws_handler>>

NextFlush ==
    \/ SaveOpen
    \/ SaveWrite
    \/ SaveClose
    \/ \E how \in {"failed", "crashed"} : SaveStops(how)

FlushSpec == InitFlush /\ [][NextFlush]_vars

\* ============================================================= /ws handlers
\* Most messages a connection is sent in the scenarios of the /ws handlers.
MaxDelivered == 2

\* The handler of o receives {"type": "ping"} and answers with a pong.
WsPing(o) ==
    /\ o \in DOMAIN ws_handler /\ ws_handler[o] = "receiving"
    /\ o \notin broken
    /\ Len(delivered[o]) < MaxDelivered
    /\ delivered' = [delivered EXCEPT ![o] = Append(@, [type |-> "pong"])]
    /\ UNCHANGED <<gitVars, otherVars, syncVars, planVars, cmdVars,
                   accepted, sending, published, watchers>>

\* The handler of o receives a text that is not JSON, or JSON that is not an
\* object: json.loads or message.get raises, no except clause of the handler
\* matches, and the handler ends with the connection still in the list. The
\* channel is closed with the handler, so send_json on it raises from now on.
WsBadMessage(o) ==
    /\ o \in DOMAIN ws_handler /\ ws_handler[o] = "receiving"
    /\ o \notin broken
    /\ ws_handler' = [ws_handler EXCEPT ![o] = "ended"]
    /\ broken' = broken \cup {o}
    /\ watchers' = [c \in DOMAIN watchers |-> watchers[c] \ {o}]
    /\ sending' = SendingWithout(o)
    /\ UNCHANGED <<gitVars, use_delta_sync, requests, cache_file, save_task, writers,
                   active_commands, run_task, read_task, process, active_connections,
                   accepted, delivered, published, syncVars, planVars>>

\* A file handler broadcasts file_changed to the list as it stands.
WsPublish ==
    /\ \A o \in DOMAIN delivered : Len(delivered[o]) < MaxDelivered
    /\ \E b \in {broadcast(Bus, [type |-> "file_changed", path |-> RunPath])} :
          /\ delivered' = b.delivered
          /\ published' = published \cup {[type |-> "file_changed", path |-> RunPath,
                                           raised |-> b.raised]}
    /\ UNCHANGED <<gitVars, otherVars, syncVars, planVars, cmdVars,
                   accepted, sending, watchers>>

NextWs ==
    \/ \E o \in Observers : WsConnect(o)
    \/ \E o \in Observers : WsBreak(o)
    \/ \E o \in Observers : WsDisconnect(o)
    \/ \E o \in Observers : WsPing(o)
    \/ \E o \in Observers : WsBadMessage(o)
    \/ WsPublish

WsSpec == Init /\ [][NextWs]_vars

\* ================================================= concurrent write requests
\* The write handlers are coroutines on one event loop: a handler runs alone
\* from one await to the next, and the aiofiles calls (open, read, write,
\* close) are the awaits at which another request's handler may run.

\* Contents the concurrent write scenarios draw from.
RaceContents == {c \in SyncContents : Len(c) <= BLOCK_SIZE + 1}

\* The request bodies: a whole-file write (PUT /api/v1/files/content) or a
\* one-block delta (PUT /api/v1/files/delta).
WriteRequests ==
    {[kind |-> "write_full", path |-> RunPath, content |-> b64encode(c)] :
        c \in RaceContents}
    \cup {[kind |-> "apply_delta", path |-> RunPath, delta_type |-> "delta",
           blocks |-> encode_blocks(extract_blocks(c, <<i>>))] :
             c \in RaceContents \ {<<>>}, i \in {0}}

Writers == {"w1", "w2"}

\* The bytes of the file after len(data) bytes are written at offset 0 to a
\* file that holds disk.
WriteAtStart(disk, data) ==
    data \o SubSeq(disk, Len(data) + 1, Len(disk))

raceUnchanged == <<local_cache, remote_cache, last, planVars, cmdVars, busVars, gitVars,
                   use_delta_sync, requests, cache_file, save_task, ws_handler>>

InitRace ==
    /\ \E c \in RaceContents \ {<<>>} :
          \E w \in {write_file_content(EmptyDict, EmptyDict,
                                       [path |-> RunPath, content |-> b64encode(c)])} :
             /\ files = w.fs
             /\ file_metadata_cache = w.cache
    /\ local_cache = EmptyDict
    /\ remote_cache = EmptyDict
    /\ last = NoLast
    /\ pin = NoPlanRun
    /\ pout = NoPlanOut
    /\ NoCommands
    /\ NoGit
    /\ NoOther

\* A write request arrives and its handler runs to its first await: the
\* whole-file write has decoded its content and is about to open the file
\* for writing; the delta has found blocks and an existing file and is about
\* to read it.
WriteArrives(w, req) ==
    /\ w \notin DOMAIN writers
    /\ w = "w1" \/ "w1" \in DOMAIN writers
    /\ req.path \in DOMAIN files
    /\ writers' = Put(writers, w,
                      IF req.kind = "write_full"
                      THEN [request |-> req, pc |-> "open", buf |-> b64decode(req.content)]
                      ELSE [request |-> req, pc |-> "read", buf |-> <<>>])
    /\ UNCHANGED <<files, file_metadata_cache, raceUnchanged>>

\* process_delta_content reads the existing file and overlays the blocks on
\* what it read.
WriterReads(w) ==
    /\ w \in DOMAIN writers /\ writers[w].pc = "read"
    /\ writers' = [writers EXCEPT ![w].pc = "open",
                                  ![w].buf = apply_blocks(files[writers[w].request.path],
                                                          writers[w].request.blocks)]
    /\ UNCHANGED <<files, file_metadata_cache, raceUnchanged>>

\* aiofiles.open(file_path, 'wb'): the file is truncated.
WriterOpens(w) ==
    /\ w \in DOMAIN writers /\ writers[w].pc = "open"
    /\ files' = Put(files, writers[w].request.path, <<>>)
    /\ writers' = [writers EXCEPT ![w].pc = "write"]
    /\ UNCHANGED <<file_metadata_cache, raceUnchanged>>

\* await f.write(content): the bytes land at the start of the file.
WriterWrites(w) ==
    /\ w \in DOMAIN writers /\ writers[w].pc = "write"
    /\ files' = [files EXCEPT ![writers[w].request.path] = WriteAtStart(@, writers[w].buf)]
    /\ writers' = [writers EXCEPT ![w].pc = "close"]
    /\ UNCHANGED <<file_metadata_cache, raceUnchanged>>

\* The file is closed and the handler resumes: generate_file_metadata with the
\* content the handler holds in memory, then the response.
WriterFinishes(w) ==
    /\ w \in DOMAIN writers /\ writers[w].pc = "close"
    /\ \E gen \in {generate_file_metadata(files, file_metadata_cache,
                                          writers[w].request.path, writers[w].buf)} :
          file_metadata_cache' = gen.cache
    /\ writers' = [writers EXCEPT ![w].pc = "done"]
    /\ UNCHANGED <<files, raceUnchanged>>

NextRace ==
    \/ \E w \in Writers, req \in WriteRequests : WriteArrives(w, req)
    \/ \E w \in Writers : WriterReads(w)
    \/ \E w \in Writers : WriterOpens(w)
    \/ \E w \in Writers : WriterWrites(w)
    \/ \E w \in Writers : WriterFinishes(w)

RaceSpec == InitRace /\ [][NextRace]_vars

\* =================================================================== claims
\* The fingerprint the server generates for the bytes data at path.
ServerFingerprint(path, data) ==
    [path |-> path, size |-> Len(data), full_hash |-> MD5(data),
     blocks |-> server_blocks(data)]

\* Blocks A and B both have and that are equal.
SharedBlocks(a, b) ==
    {i \in 0..(Min(NumBlocks(Len(a)), NumBlocks(Len(b))) - 1) : BlockOf(a, i) = BlockOf(b, i)}

\* The indices of the blocks of b that differ from the block of a at the
\* same index or lie beyond the blocks of a.
ChangedBlocks(a, b) ==
    {i \in 0..(NumBlocks(Len(b)) - 1) :
        i >= NumBlocks(Len(a)) \/ BlockOf(a, i) # BlockOf(b, i)}

ClientRunDone == pin.kind = "client" /\ pout.done
RawRunDone == pin.kind = "raw" /\ pout.done

\* C1: for any bytes B, the payload built for a `full` plan of B, applied by
\* the delta handler and read back, yields B and a fingerprint whose whole
\* digest is the MD5 of B.
C1_FullRoundTrip ==
    (ClientRunDone /\ ~pin.cached) =>
        /\ pout.plan = "full"
        /\ pout.back # <<>>
        /\ pout.back[1].content = pin.B
        /\ pout.back[1].full_hash = MD5(pin.B)

\* C2: a first sync of a new file plans `full`, creates the file on the
\* server and records its remote fingerprint in the client cache; a repeated
\* sync of the same content plans `none` and sends no file content.
C2_UnchangedFileScenario ==
    last.op = "sync_files" =>
        /\ last.new =>
              /\ last.plan = "full"
              /\ last.path \in DOMAIN files
              /\ files[last.path] = LastContent
              /\ last.path \in DOMAIN remote_cache
        /\ last.repeat => (last.plan = "none" /\ last.sent = 0)

\* C3: for A and B of equal length that share at least one block, the delta
\* planned for B against the cached fingerprint of A, applied to a server
\* file containing A, leaves the file with content B and returns the
\* fingerprint of B.
C3_DeltaEqualSizes ==
    (/\ ClientRunDone /\ pin.has /\ pin.cached
     /\ Len(pin.A) = Len(pin.B)
     /\ SharedBlocks(pin.A, pin.B) # {}) =>
        /\ pout.status = "success"
        /\ pout.file = <<pin.B>>
        /\ pout.metadata = <<ServerFingerprint(RunPath, pin.B)>>

C3_Witness ==
    /\ ClientRunDone /\ pin.has /\ pin.cached
    /\ Len(pin.A) = Len(pin.B) /\ pin.A # pin.B
    /\ SharedBlocks(pin.A, pin.B) # {}
    /\ pout.plan = "delta"
    /\ pout.file = <<pin.B>>

\* C4: whenever the client reports a successful sync of a path, its cache
\* holds a local fingerprint (of the content synced) and a remote fingerprint
\* of the path, and their whole digests are equal.
C4_CacheConsistentAfterSync ==
    (last.op \in {"update", "sync_files"} /\ last.ok) =>
        /\ TmpPath \in DOMAIN local_cache
        /\ last.path \in DOMAIN remote_cache
        /\ local_cache[TmpPath].full_hash = remote_cache[last.path].full_hash

\* C5: the plan is `none` when the local content equals the cached remote
\* content, and otherwise a `delta` whose index set is exactly the indices
\* whose block differs from the remote's or lies beyond the remote's blocks.
C5_PlannerMinimality ==
    (ClientRunDone /\ pin.has /\ pin.cached) =>
        /\ pin.A = pin.B => pout.plan = "none"
        /\ pout.plan = "delta" => pout.indices = ChangedBlocks(pin.A, pin.B)

\* C6: whenever the local file has fewer blocks than the cached remote
\* fingerprint of the path, the plan is `full` and never `delta`.
C6_ShrinkEscalation ==
    (/\ ClientRunDone /\ pin.has /\ pin.cached
     /\ NumBlocks(Len(pin.B)) < NumBlocks(Len(pin.A))) =>
        /\ pout.plan = "full"
        /\ pout.plan # "delta"

\* C7: a `delta` plan whose blocks leave the resulting file smaller than the
\* size the plan advertises gets an error result, not a success.
C7_ShortDeltaRejected ==
    (/\ RawRunDone
     /\ Len(apply_blocks(pin.A, encode_blocks(extract_blocks(pin.B, IndexSeq(pin.sel)))))
            < pin.size) =>
        pout.status = "error"

\* C8: the state of a command changes only along pending -> running,
\* running -> completed, running -> timeout and pending -> failed.
LifecycleEdges ==
    {<<"pending", "running">>, <<"running", "completed">>,
     <<"running", "timeout">>, <<"pending", "failed">>}
C8_LifecycleEdges ==
    [][\A c \in DOMAIN active_commands :
          active_commands'[c].status # active_commands[c].status =>
              <<active_commands[c].status, active_commands'[c].status>> \in LifecycleEdges]_vars

\* C9: a command in a terminal state has an integer exit_code, a pending or
\* running command has none, and one ended by timeout has a non-zero one.
C9_ExitCodeMatchesState ==
    \A c \in DOMAIN active_commands :
        LET info == active_commands[c] IN
        /\ info.status \in Terminal => info.exit_code # <<>>
        /\ info.status \in {"pending", "running"} => info.exit_code = <<>>
        /\ info.status = "timeout" => (info.exit_code # <<>> /\ info.exit_code[1] # 0)

\* C10: every submitted command eventually reaches a terminal state, under
\* fair scheduling and given that its timeout fires, whatever the subprocess
\* does.
C10_CommandTerminality ==
    \A c \in CommandIds :
        (c \in DOMAIN active_commands) ~>
            (c \in DOMAIN active_commands /\ active_commands[c].status \in Terminal)

\* A command whose process wrote nothing, ignored terminate() and was killed.
C10_Witness ==
    \E c \in DOMAIN active_commands :
        /\ active_commands[c].status = "timeout"
        /\ process[c].killed

\* The run_command task of command c is past the sleep of the timeout branch.
PastGrace(c) == run_task[c] \in {"gather", "announcing", "done"}

\* C11: when the timeout of a running command expires the state becomes
\* timeout and termination is requested, with no kill yet; a kill is issued
\* only at the end of the grace interval, after the terminate, and only on a
\* process that has not exited; a process that has not exited by then is
\* always killed.
C11_TimeoutEscalation ==
    [][\A c \in DOMAIN process :
          /\ (run_task[c] = "waiting" /\ run_task'[c] = "grace") =>
                 /\ active_commands[c].status = "running"
                 /\ active_commands'[c].status = "timeout"
                 /\ process'[c].terminated /\ ~process'[c].killed
          /\ (~process[c].killed /\ process'[c].killed) =>
                 /\ process[c].terminated
                 /\ run_task[c] = "grace"
                 /\ process[c].returncode = <<>>
          /\ (run_task[c] = "grace" /\ run_task'[c] # "grace"
                 /\ process[c].returncode = <<>>) => process'[c].killed
          /\ process[c].terminated => process'[c].terminated]_vars

\* A process that exited on the terminate request within the grace interval
\* and was not killed.
C11_Witness ==
    \E c \in DOMAIN process :
        /\ PastGrace(c)
        /\ active_commands[c].status = "timeout"
        /\ process[c].terminated /\ ~process[c].killed
        /\ process[c].returncode = <<-15>>

\* C12: for every command whose run has ended in a terminal state, a
\* command_completed notification with its id, its final state and its exit
\* code has been published.
C12_CompletionPublished ==
    \A c \in DOMAIN active_commands :
        (run_task[c] = "done" /\ active_commands[c].status \in Terminal) =>
            \E m \in published :
                /\ m.type = "command_completed"
                /\ m.command_id = c
                /\ m.status = active_commands[c].status
                /\ m.exit_code = active_commands[c].exit_code

\* C13: on any observer, no command_output of a command id is delivered
\* after the command_completed of that id.
C13_NoOutputAfterCompleted ==
    \A o \in DOMAIN delivered :
        \A i, j \in DOMAIN delivered[o] :
            (i < j /\ delivered[o][i].type = "command_completed") =>
                ~(/\ delivered[o][j].type = "command_output"
                  /\ delivered[o][j].command_id = delivered[o][i].command_id)

\* An observer that got an output line of a command and then its completion.
C13_Witness ==
    \E o \in DOMAIN delivered :
        \E i, j \in DOMAIN delivered[o] :
            /\ i < j
            /\ delivered[o][i].type = "command_output"
            /\ delivered[o][j].type = "command_completed"
            /\ delivered[o][j].command_id = delivered[o][i].command_id

\* The lines of the command_output messages of command c delivered to
\* observer o, in delivery order.
RECURSIVE OutputsOf(_, _)
OutputsOf(msgs, c) ==
    IF msgs = <<>> THEN <<>>
    ELSE IF Head(msgs).type = "command_output" /\ Head(msgs).command_id = c
         THEN <<Head(msgs).content>> \o OutputsOf(Tail(msgs), c)
         ELSE OutputsOf(Tail(msgs), c)

IsPrefix(a, b) == Len(a) <= Len(b) /\ SubSeq(b, 1, Len(a)) = a

\* C14: for each command and each observer (here: the observers registered
\* and sound since the command was submitted, none having joined later,
\* broken or left), the command_output lines delivered to the observer, in
\* delivery order, are a prefix of the command's output buffer.
C14_OutputsArePrefix ==
    \A c \in DOMAIN active_commands :
        (watchers[c] = accepted) =>
            \A o \in watchers[c] :
                IsPrefix(OutputsOf(delivered[o], c), active_commands[c].output)

\* C15: the output buffer of a command only grows: in every step the output
\* before is a prefix of the output after.
C15_OutputOnlyGrows ==
    [][\A c \in DOMAIN active_commands :
          IsPrefix(active_commands[c].output, active_commands'[c].output)]_vars

\* A failed command whose buffer holds a line read before the failure and the
\* error text after it.
C15_Witness ==
    \E c \in DOMAIN active_commands :
        /\ active_commands[c].status = "failed"
        /\ Len(active_commands[c].output) >= 2
        /\ active_commands[c].output[1][1] \in Streams
        /\ active_commands[c].output[Len(active_commands[c].output)][1] = "error"

\* C20: a publication that is over was sent to every observer that was
\* registered and sound from its start to its end, also when the delivery to
\* another observer failed or another observer left meanwhile.
C20_PublicationReachesAll ==
    \A t \in DOMAIN sending :
        sending[t].state # "suspended" => sending[t].stayed \subseteq sending[t].got

\* The server before the request.
PreServer == ServerWith(pin.pre)
ServedKind(kind) == pin.kind = kind /\ pout.done
ChecksumFails(item) ==
    /\ "checksum" \in DOMAIN item
    /\ item.checksum # <<>>
    /\ item.checksum # MD5(b64decode(item.content))

\* What one batch item does to the files when it is applied by itself: a
\* whole-file item writes its content unless its checksum is wrong; a full
\* plan writes its content when it has one; a delta plan with block 0 writes
\* the block over the start of the file there is; anything else fails and
\* changes nothing.
ItemEffect(fs, item) ==
    IF "delta_type" \notin DOMAIN item
    THEN IF ChecksumFails(item) THEN fs
         ELSE Put(fs, item.path, b64decode(item.content))
    ELSE IF item.delta_type = "full" /\ "content" \in DOMAIN item /\ item.content # <<>>
    THEN Put(fs, item.path, b64decode(item.content))
    ELSE IF item.delta_type = "delta" /\ "blocks" \in DOMAIN item /\ item.path \in DOMAIN fs
    THEN LET d == b64decode(item.blocks[1].data)
             old == fs[item.path]
         IN Put(fs, item.path, d \o SubSeq(old, Len(d) + 1, Len(old)))
    ELSE fs

RECURSIVE InOrder(_, _)
InOrder(fs, items) ==
    IF items = <<>> THEN fs ELSE InOrder(ItemEffect(fs, Head(items)), Tail(items))

\* C16: a batch request leaves the files as applying its items one by one in
\* submission order does, an item that fails changing nothing and stopping
\* nothing.
C16_BatchInOrder ==
    (ServedKind("sync") \/ ServedKind("delta_sync")) =>
        files = InOrder(PreServer.fs, pin.body)

\* A batch whose first item fails its checksum and whose second item creates
\* the file at the same path.
C16_Witness ==
    /\ ServedKind("sync") /\ Len(pin.body) = 2
    /\ pin.body[1].path = pin.body[2].path
    /\ ChecksumFails(pin.body[1]) /\ ~ChecksumFails(pin.body[2])
    /\ pin.body[1].content # pin.body[2].content
    /\ pin.body[2].path \notin DOMAIN PreServer.fs
    /\ files[pin.body[2].path] = b64decode(pin.body[2].content)

\* C17: in every batch response details has one entry per submitted item and
\* synchronized + failed is the number of submitted items.
C17_BatchAccounting ==
    (ServedKind("sync") \/ ServedKind("delta_sync")) =>
        /\ Len(pout.response.data.details) = Len(pin.body)
        /\ pout.response.data.synchronized + pout.response.data.failed = Len(pin.body)

C19_DeltaWithoutBase ==
    (/\ ServedKind("delta") /\ pin.body.delta_type = "delta"
     /\ pin.body.path \notin DOMAIN PreServer.fs) =>
        /\ pout.response.data.status = "error"
        /\ pin.body.path \notin DOMAIN files
        /\ file_metadata_cache = PreServer.cache

\* Such a plan that carries a block, on a server that holds another file.
C19_Witness ==
    /\ ServedKind("delta") /\ pin.body.delta_type = "delta"
    /\ "blocks" \in DOMAIN pin.body
    /\ pin.body.path \notin DOMAIN PreServer.fs
    /\ DOMAIN PreServer.fs # {}
    /\ pout.response.data.status = "error"

\* C21: a file write whose file_changed broadcast fails still returns its
\* success result.
C21_DeliveryFailureSwallowed ==
    (ServedKind("put") /\ ~ChecksumFails(pin.body)) => pout.response.http = 200

\* C22: a publication is never sent to an observer that registered after it
\* started: every delivery of a suspended broadcast that resumes goes to an
\* observer registered since the broadcast began.
C22_NoDeliveryToLateObserver ==
    [][\A t \in DOMAIN sending :
          sending[t].state = "suspended"
              => sending'[t].got \ sending[t].got \subseteq sending[t].stayed]_vars

\* The i-th patch-sync call was of operation op.
Called(i, op) == i \in DOMAIN git_run /\ git_run[i].op = op
\* The patch a call carried.
PatchOf(call) == unb64(call.request.patch_content)
\* The base commit of a patch request is none or a commit the server has.
KnownBase(call) ==
    call.request.base_commit = NoCommit \/ cat_file_e(call.before, call.request.base_commit)
\* The paths of a patch request whose change does not fit the server's file.
ConflictingPaths(call) ==
    {PatchOf(call)[i].path : i \in {k \in DOMAIN PatchOf(call) :
        apply_error(call.before.tree, PatchOf(call)[k]) = "patch does not apply"}}

C24_ConflictLeavesRepository ==
    (Len(git_run) = 1 /\ Called(1, "apply_git_patch") /\ KnownBase(git_run[1])
        /\ ConflictingPaths(git_run[1]) # {})
    => /\ git_run[1].result.status = "conflict"
       /\ server_repo = git_run[1].before

\* C25: after a patch request whose patch did not fit, every conflicting path
\* is recorded with the server's current content of the file, and the
\* conflicts query lists it.
C25_ConflictsRecorded ==
    (Called(1, "apply_git_patch") /\ KnownBase(git_run[1])
        /\ ~Called(2, "resolve_conflicts"))
    => \A p \in ConflictingPaths(git_run[1]) :
          /\ HasConflicts(conflict_files)
          /\ \E k \in DOMAIN conflict_files[RepoPath] :
                 /\ conflict_files[RepoPath][k].path = p
                 /\ conflict_files[RepoPath][k].remote_content = b64(server_repo.tree[p])
          /\ Called(2, "get_conflicts")
                => /\ git_run[2].result.status = "success"
                   /\ \E k \in DOMAIN git_run[2].result.conflicts :
                          git_run[2].result.conflicts[k].path = p

\* C26: the resolve call that resolves every conflict of the preceding patch
\* request, and so the last recorded one, reports success and creates
\* exactly one commit; a merged resolution leaves the supplied content in
\* the file.
C26_ResolveCommitsAtTheEnd ==
    (Called(1, "apply_git_patch") /\ KnownBase(git_run[1])
        /\ ConflictingPaths(git_run[1]) # {} /\ Called(2, "resolve_conflicts")
        /\ ConflictingPaths(git_run[1])
               = {git_run[2].request[k].path : k \in DOMAIN git_run[2].request})
    => /\ git_run[2].result.status = "success"
       /\ Len(server_repo.commits) = Len(git_run[2].before.commits) + 1
       /\ \A k \in DOMAIN git_run[2].request :
             git_run[2].request[k].resolution = "merged"
                => server_repo.tree[git_run[2].request[k].path]
                       = unb64(git_run[2].request[k].content)

\* C27: a bundle applied a second time, after its first application
\* succeeded, yields a conflict or changes nothing: no commit with new
\* content is created.
C27_PatchIdempotence ==
    (Len(git_run) = 2 /\ Called(2, "manager_apply")
        /\ git_run[1].result.status = "success")
    => /\ git_run[2].result.status = "conflict" \/ server_repo = git_run[2].before
       /\ HeadTree(server_repo) = HeadTree(git_run[2].before)

\* C28: the bundle of generate_patch, applied (patch text, then binary files)
\* to a tree at its base commit, reproduces the client's working tree.
C28_BundleComplete ==
    (Len(git_run) = 1 /\ Called(1, "manager_apply")
        /\ git_status(git_run[1].before).changed = {}
        /\ git_run[1].before.tree = get_last_sync_point(client_repo).tree)
    => server_repo.tree = client_repo.tree

\* C29: the sync of a client with pending changes, with a server that stands
\* at the client's sync point, reports success; the server then holds a new
\* commit carrying the sync marker, the client's status reports no pending
\* changes, and a repeated sync sends no patch.
C29_PatchRoundTrip ==
    (Len(git_run) >= 1 /\ Called(1, "sync") /\ git_run[1].pending
        /\ git_status(git_run[1].before).changed = {}
        /\ git_run[1].before.tree = get_last_sync_point(client_repo).tree)
    => /\ git_run[1].result
       /\ Len(server_repo.commits) > Len(git_run[1].before.commits)
       /\ HasMarker(HeadCommit(server_repo).message)
       /\ ~manager_get_sync_status(client_repo).pending_changes
       /\ Called(2, "sync") => git_run[2].sent = <<>>

\* C30: a patch that adds a new file, sent to a clean repository, is answered
\* with status success, the id of the new commit, and affected_files holding
\* every path of the patch exactly once.
C30_NewFilePatchSucceeds ==
    (Len(git_run) = 1 /\ Called(1, "apply_git_patch") /\ KnownBase(git_run[1])
        /\ git_status(git_run[1].before).changed = {}
        /\ git_apply_errors(git_run[1].before.tree, PatchOf(git_run[1])) = {}
        /\ \E k \in DOMAIN PatchOf(git_run[1]) : PatchOf(git_run[1])[k].kind = "new")
    => /\ git_run[1].result.status = "success"
       /\ git_run[1].result.commit = HeadCommit(server_repo).id
       /\ Len(server_repo.commits) = Len(git_run[1].before.commits) + 1
       /\ \A k \in DOMAIN PatchOf(git_run[1]) :
             Cardinality({j \in DOMAIN git_run[1].result.affected_files :
                 git_run[1].result.affected_files[j] = PatchOf(git_run[1])[k].path}) = 1

\* C31: the client reports a single-file update as successful only if the
\* server applied it: when the delta endpoint answers with an error result,
\* update_file_content returns failure and leaves the remote view as it was.
C31_ErrorResultReported ==
    (ClientRunDone /\ pout.status = "error") =>
        /\ ~pout.returned
        /\ pout.remote_view = RunRemoteView

\* The endpoints that take a plan, and those that take a whole file.
DeltaEndpoints == {"PUT /api/v1/files/delta", "POST /api/v1/files/delta_sync"}
WholeFileEndpoints == {"PUT /api/v1/files/content", "POST /api/v1/files/sync"}
\* The client learns at request i that the server has no delta sync: the root
\* response does not advertise it, or a delta endpoint answers 404.
LearnsNoDelta(i) ==
    \/ requests[i].endpoint = "GET /" /\ ~pin.delta_sync_supported
    \/ requests[i].endpoint \in DeltaEndpoints /\ requests[i].http = 404

\* C32: degradation to full transfer is one-way: once the client has learned
\* that the server has no delta sync, every later write of the session goes
\* to a whole-file endpoint, and the write whose delta request got the 404 is
\* sent again whole, with all of its content, which the server then holds.
C32_OneWayDegradation ==
    /\ \A i \in DOMAIN requests : \A j \in DOMAIN requests :
          (i < j /\ LearnsNoDelta(i)) => requests[j].endpoint \notin DeltaEndpoints
    /\ \A i \in DOMAIN requests :
          (requests[i].endpoint \in DeltaEndpoints /\ requests[i].http = 404) =>
              /\ ~use_delta_sync
              /\ i < Len(requests) =>
                    /\ requests[i + 1].endpoint \in WholeFileEndpoints
                    /\ requests[i + 1].complete
                    /\ requests[i + 1].http = 200 => requests[i + 1].stored

C32_Witness ==
    /\ Len(requests) = 3
    /\ requests[1].endpoint = "PUT /api/v1/files/delta" /\ requests[1].http = 404
    /\ requests[2].endpoint = "PUT /api/v1/files/content" /\ requests[2].stored
    /\ requests[3].endpoint = "POST /api/v1/files/sync" /\ requests[3].stored

\* C33: the patch-sync client calls the patch endpoint only when the root
\* response it has read advertises git_sync_supported.
C33_PatchOnlyWhenAdvertised ==
    \A i \in DOMAIN requests :
        requests[i].endpoint = "POST /api/v1/sync/patch" =>
            /\ pin.git_sync_supported
            /\ \E j \in 1..(i - 1) : requests[j].endpoint = "GET /"

\* C34: the cache flush is atomic: at every point of a flush, a failure or a
\* crash midway included, the cache file holds the whole previous text or
\* the whole new text.
C34_FlushAtomic ==
    save_task.state # "idle" =>
        cache_file \in {save_task.previous, Serialise(local_cache, remote_cache)}

\* C35: terminal states are absorbing: once the state of a command is
\* completed, timeout or failed, no step changes it.
C35_TerminalAbsorbing ==
    [][\A c \in DOMAIN active_commands :
          active_commands[c].status \in Terminal =>
              active_commands'[c].status = active_commands[c].status]_vars

\* C36: once get_output reports a command complete (its state is terminal),
\* the output it returns never changes: no step appends to the buffer.
C36_OutputStableOnceComplete ==
    [][\A c \in DOMAIN active_commands :
          active_commands[c].status \in Terminal =>
              active_commands'[c].output = active_commands[c].output]_vars

\* C37: after a plan that the server reports as applied, the size and the
\* whole digest of the file are the size and full_hash the plan advertised.
C37_AppliedPlanMatchesAdvertised ==
    (pout.done /\ pin.kind \in {"client", "raw"} /\ pout.status = "success"
        /\ (pin.kind = "client" => pout.plan \in {"full", "delta"})) =>
        /\ pout.file # <<>>
        /\ Len(pout.file[1]) = (IF pin.kind = "raw" THEN pin.size ELSE Len(pin.B))
        /\ MD5(pout.file[1]) = MD5(pin.B)

\* C38: a file_changed notification is published only after the path was
\* changed: a single-plan delta request whose result is an error delivers
\* no file_changed to any observer.
C38_NoEventOnFailedDelta ==
    (ServedKind("delta") /\ pout.response.data.status = "error") =>
        \A o \in DOMAIN delivered : delivered[o] = <<>>

\* C39: the observer registry holds only observers whose /ws handler is
\* still running: a handler that has ended, for whatever reason, has left
\* the list, so no broadcast targets its channel.
C39_RegistryOnlyLiveHandlers ==
    \A i \in DOMAIN active_connections : ws_handler[active_connections[i]] = "receiving"

\* C40: once every write request in flight for a path has completed, the
\* cached fingerprint of the path is the fingerprint of the bytes on disk,
\* whatever the interleaving of the requests at their awaits.
C40_CacheMatchesDiskWhenQuiet ==
    (DOMAIN writers # {} /\ \A w \in DOMAIN writers : writers[w].pc = "done")
        => file_metadata_cache[RunPath] = ServerFingerprint(RunPath, files[RunPath])

====
